---- MODULE Spec2Model ----
(***************************************************************************)
(* Sequential pod restart (src/kube888.py): main() loads a kubeconfig,     *)
(* lists every pod of the cluster, keeps the pods outside kube-system in   *)
(* phase Running or Pending, waits 10 seconds for a Ctrl+C, and then calls *)
(* restart_pod() on each kept pod in turn, counting the True and False     *)
(* results and printing a summary.                                         *)
(*                                                                         *)
(* wait_for_pod_ready() is defined beside them and called by neither; it is *)
(* modelled as a second entry point of the module (WaitSpec).              *)
(*                                                                         *)
(* The cluster API is the environment: every call either raises or         *)
(* returns a listing drawn from a small set of pods.  Names are sequences  *)
(* of characters, so that split('-')[0] and startswith() are computed.     *)
(*                                                                         *)
(* The other scripts of the repository are separate programs, each a       *)
(* specification of its own over its own variables:                        *)
(*   ReportSpec   src/kube979.py, the pod resource usage report.           *)
(*   RecentSpec   src/kube777.py, the pods created in the last 12 hours.   *)
(*   DeploySpec   src/kube555.py, the deployment enumeration report.       *)
(*   PlaybookSpec src/generate_kubaaa1.py and                              *)
(*                src/kubaaa1/validate_kubaaa1.py, the playbook generator  *)
(*                and the two validators applied to a playbook.            *)
(***************************************************************************)
EXTENDS Integers, Sequences, FiniteSets, TLC

VARIABLES
    pc,                   \* position of the process in main() / restart_pod()
    path_idx,             \* main: index of config_path in config_paths, 0 outside the loop
    kubeconfig_loaded,    \* main: kubeconfig_loaded
    pods,                 \* main: pods.items, the all-namespace snapshot
    restartable_pods,     \* main: restartable_pods
    i,                    \* main: loop index of enumerate(restartable_pods, 1)
    retry,                \* restart_pod: retry of range(max_retries), 0 outside the loop
    ret,                  \* value returned by the last restart_pod call
    successful_restarts,  \* main: successful_restarts
    failed_restarts,      \* main: failed_restarts
    summary,              \* the three numbers printed under RESTART SUMMARY
    returned_by,          \* history: the statement of restart_pod that produced ret
    exit_status,          \* process exit status, meaningful once the process ended
    ended_by,             \* "running", or the statement that ended the process
    all_listings,         \* history: number of list_pod_for_all_namespaces calls
    deleted,              \* history: candidate indices of delete_namespaced_pod calls
    outcomes,             \* history: <<index, result>> of each counted restart
    polls,                \* history: list_namespaced_pod calls of the pending restart_pod call
    waited,               \* history: seconds slept by the pending restart_pod call
    matched,              \* history: the listed pod that made the pending call return True
    cooled,               \* history: seconds slept between candidates, line 234
    w_pc,                 \* position in wait_for_pod_ready(), "off" when it is not called
    w_timeout,            \* wait_for_pod_ready: timeout
    w_elapsed,            \* wait_for_pod_ready: time.time() - start_time
    w_ret,                \* value returned by wait_for_pod_ready
    w_polls,              \* history: read_namespaced_pod calls
    w_sleeps,             \* history: time.sleep(5) calls
    w_last,               \* history: what the last read_namespaced_pod call reported
    w_had_error,          \* history: a read_namespaced_pod call raised
    rep_pc,               \* kube979: position in main(), "off" when it is not run
    rep_path_idx,         \* kube979 main: index of config_path in config_paths
    rep_pods,             \* kube979 main: pods.items
    metrics_available,    \* kube979 main: metrics_available
    pod_data,             \* kube979 main: pod_data
    total_cpu_usage,      \* kube979 main: total_cpu_usage
    total_memory_usage,   \* kube979 main: total_memory_usage
    total_cpu_requests,   \* kube979 main: total_cpu_requests
    total_cpu_limits,     \* kube979 main: total_cpu_limits
    total_memory_requests, \* kube979 main: total_memory_requests
    total_memory_limits,  \* kube979 main: total_memory_limits
    rep_rows,             \* kube979: the rows printed by lines 315-323
    rep_lookups,          \* kube979 history: what the metrics lookup of each pod did
    rep_exit_status,      \* kube979: process exit status
    rep_ended_by,         \* kube979: "running", or the statement that ended the process
    rec_pc,               \* kube777: position in main(), "off" when it is not run
    rec_path_idx,         \* kube777 main: index of config_path in config_paths
    rec_pods,             \* kube777 main: pods.items
    now,                  \* kube777 main: now, in seconds
    rec_idx,              \* kube777 main: pods of pods.items the loop of line 118 has seen
    recent_pods,          \* kube777 main: recent_pods
    rec_rows,             \* kube777: the rows printed by line 148
    rec_total,            \* kube777: the numbers printed by line 150
    rec_exit_status,      \* kube777: process exit status
    rec_ended_by,         \* kube777: "running", or the statement that ended the process
    dep_pc,               \* kube555: position in main(), "off" when it is not run
    deployments,          \* kube555 main: deployments.items
    dep_idx,              \* kube555 main: deployments the loop of line 70 has seen
    namespace_stats,      \* kube555 main: namespace_stats, a dict from namespace to count
    dep_rows,             \* kube555: the rows printed by line 90
    dep_summary,          \* kube555: what lines 93-98 print
    dep_exit_status,      \* kube555: process exit status
    dep_ended_by,         \* kube555: "running", or the statement that ended the process
    playbooks,            \* validate_kubaaa1: the argument of the two validators
    structure_valid,      \* validate_kubaaa1 main: structure_valid, "unset" before the call
    kubectl_valid         \* validate_kubaaa1 main: kubectl_valid, "unset" before the call

vars == <<pc, path_idx, kubeconfig_loaded, pods, restartable_pods, i, retry, ret,
          returned_by, successful_restarts, failed_restarts, summary, exit_status, ended_by,
          all_listings, deleted, outcomes, polls, waited, matched, cooled,
          w_pc, w_timeout, w_elapsed, w_ret, w_polls, w_sleeps, w_last, w_had_error,
          rep_pc, rep_path_idx, rep_pods, metrics_available, pod_data, total_cpu_usage,
          total_memory_usage, total_cpu_requests, total_cpu_limits, total_memory_requests,
          total_memory_limits, rep_rows, rep_lookups, rep_exit_status, rep_ended_by,
          rec_pc, rec_path_idx, rec_pods, now, rec_idx, recent_pods, rec_rows, rec_total,
          rec_exit_status, rec_ended_by,
          dep_pc, deployments, dep_idx, namespace_stats, dep_rows, dep_summary,
          dep_exit_status, dep_ended_by,
          playbooks, structure_valid, kubectl_valid>>

\* The state of kube979.main.
report_vars == <<rep_pc, rep_path_idx, rep_pods, metrics_available, pod_data, total_cpu_usage,
                 total_memory_usage, total_cpu_requests, total_cpu_limits,
                 total_memory_requests, total_memory_limits, rep_rows, rep_lookups,
                 rep_exit_status, rep_ended_by>>

\* The state of kube777.main.
recent_vars == <<rec_pc, rec_path_idx, rec_pods, now, rec_idx, recent_pods, rec_rows, rec_total,
                 rec_exit_status, rec_ended_by>>

\* The state of kube555.main.
deploy_vars == <<dep_pc, deployments, dep_idx, namespace_stats, dep_rows, dep_summary,
                 dep_exit_status, dep_ended_by>>

\* The state of the playbook validators.
playbook_vars == <<playbooks, structure_valid, kubectl_valid>>

\* The state of the scripts other than kube888.
script_vars == <<report_vars, recent_vars, deploy_vars, playbook_vars>>

\* The state of wait_for_pod_ready.
wait_vars == <<w_pc, w_timeout, w_elapsed, w_ret, w_polls, w_sleeps, w_last, w_had_error>>

\* The state of main and restart_pod.
main_vars == <<pc, path_idx, kubeconfig_loaded, pods, restartable_pods, i, retry, ret,
               returned_by, successful_restarts, failed_restarts, summary, exit_status,
               ended_by, all_listings, deleted, outcomes, polls, waited, matched, cooled>>

\* The history of a restart_pod call; it is cleared when main counts the result.
call_hist == <<polls, waited, matched>>

\* --------------------------------------------------------------- bounds
\* Longest all-namespace snapshot the API returns.
MaxPods == 3
\* Longest namespace-scoped listing the API returns.
MaxListing == 2
\* Largest timeout wait_for_pod_ready is called with, besides its default.
MaxTimeout == 11
\* Longest time a read_namespaced_pod call takes.
MaxLatency == 1
\* Most containers a pod status reports.
MaxContainers == 2

\* ------------------------------------------------------ program constants
config_paths == <<"c:\\n8n\\vke5.yaml", "/tmp/repository_2_11/vke5.yaml", "vke5.yaml">>

max_retries == 30

\* restart_pod, line 109: time.sleep(10)
grace_sleep == 10

\* restart_pod, lines 122 and 125: time.sleep(5)
retry_sleep == 5

\* main, line 234: time.sleep(15)
cooldown_sleep == 15

\* wait_for_pod_ready, line 69: timeout=300
default_timeout == 300

\* wait_for_pod_ready, line 94: time.sleep(5)
wait_sleep == 5

system_namespaces == {"kube-system"}

\* ------------------------------------------------------------ pod names
Name(prefix, digit) == prefix \o <<"-", digit>>

web1 == Name(<<"w", "e", "b">>, "1")
web2 == Name(<<"w", "e", "b">>, "2")
web9 == Name(<<"w", "e", "b">>, "9")
api1 == Name(<<"a", "p", "i">>, "1")
job1 == Name(<<"j", "o", "b">>, "1")
old1 == Name(<<"o", "l", "d">>, "1")
tmp1 == Name(<<"t", "m", "p">>, "1")
dns1 == Name(<<"d", "n", "s">>, "1")

Pod(ns, name, phase) == [namespace |-> ns, name |-> name, phase |-> phase]

\* A listed pod with status.container_statuses[*].ready
Listed(ns, name, phase, ready) ==
    [namespace |-> ns, name |-> name, phase |-> phase, container_statuses |-> ready]

\* No pod.
NoPod == Listed("", <<>>, "", <<>>)

\* pod.status as read_namespaced_pod reports it: phase, and container_statuses,
\* which is None (absent) or a list of container.ready flags
Status(phase, absent, ready) == [phase |-> phase, absent |-> absent, ready |-> ready]

\* Nothing read yet.
NoStatus == Status("", TRUE, <<>>)

\* A read_namespaced_pod call that raised.
ReadFailed == Status("error", TRUE, <<>>)

Phases == {"Pending", "Running", "Succeeded", "Failed", "Unknown"}

\* Lists of at most n container.ready flags
RECURSIVE Flags(_)
Flags(n) ==
    IF n = 0 THEN {<<>>}
    ELSE Flags(n - 1) \cup
         { Append(s, b) : s \in { f \in Flags(n - 1) : Len(f) = n - 1 }, b \in BOOLEAN }

\* What read_namespaced_pod can report.
Statuses ==
    { Status(ph, TRUE, <<>>) : ph \in Phases } \cup
    { Status(ph, FALSE, r) : ph \in Phases, r \in Flags(MaxContainers) }

\* The timeouts wait_for_pod_ready is called with.
Timeouts == 0..MaxTimeout \cup {default_timeout}

\* The pods a snapshot is drawn from: every phase occurs outside kube-system,
\* and a restartable phase occurs inside it.
ClusterPods ==
    { Pod("app", web1, "Running"),
      Pod("app", web2, "Pending"),
      Pod("app", api1, "Running"),
      Pod("app", job1, "Succeeded"),
      Pod("app", old1, "Failed"),
      Pod("app", tmp1, "Unknown"),
      Pod("kube-system", dns1, "Running") }

\* The pods a namespace-scoped listing is drawn from: the evicted pod still
\* listed while it terminates (its container no longer ready), a replacement
\* not yet running, the replacement running and ready, and a completed pod of
\* another name.
LivePods(ns) ==
    { Listed(ns, web1, "Running", <<FALSE>>),
      Listed(ns, web9, "Pending", <<FALSE>>),
      Listed(ns, web9, "Running", <<TRUE>>),
      Listed(ns, api1, "Succeeded", <<FALSE>>) }

SameIdentity(p, q) == p.namespace = q.namespace /\ p.name = q.name

\* Sequences over S of length at most n in which no identity occurs twice
\* (the API server keeps namespace/name unique).
RECURSIVE DistinctSeqs(_, _)
DistinctSeqs(S, n) ==
    IF n = 0 THEN {<<>>}
    ELSE LET shorter == DistinctSeqs(S, n - 1)
             longest == { s \in shorter : Len(s) = n - 1 }
         IN  shorter \cup
             { Append(e[1], e[2]) :
                 e \in { f \in longest \X S :
                           \A k \in 1..Len(f[1]) : ~SameIdentity(f[1][k], f[2]) } }

\* What list_pod_for_all_namespaces can return.
Snapshots == DistinctSeqs(ClusterPods, MaxPods)

\* What list_namespaced_pod(namespace) can return.
Listings == [ns \in {"app", "kube-system"} |-> DistinctSeqs(LivePods(ns), MaxListing)]

\* ------------------------------------------------------- pure functions
\* pod_name.split('-')[0]
RECURSIVE FirstSegment(_)
FirstSegment(name) ==
    IF name = <<>> \/ Head(name) = "-" THEN <<>>
    ELSE <<Head(name)>> \o FirstSegment(Tail(name))

\* s.startswith(prefix)
StartsWith(s, prefix) ==
    /\ Len(prefix) <= Len(s)
    /\ SubSeq(s, 1, Len(prefix)) = prefix

\* Variant: the namespace test of line 187 is missing.
IsRestartableAnyNamespace(pod) ==
    pod.phase \in {"Running", "Pending"}

\* Variant: the phase test of line 188 admits every phase but Failed.
IsRestartableNotFailed(pod) ==
    /\ pod.namespace \notin system_namespaces
    /\ pod.phase # "Failed"

\* main, lines 187-188: the test that admits a pod to restartable_pods
IsRestartable(pod) ==
    /\ pod.namespace \notin system_namespaces
    /\ pod.phase \in {"Running", "Pending"}

\* Variant: line 189 inserts at the front instead of appending.
RECURSIVE SelectPrepend(_)
SelectPrepend(items) ==
    IF items = <<>> THEN <<>>
    ELSE LET n == Len(items)
             before == SelectPrepend(SubSeq(items, 1, n - 1))
         IN  IF IsRestartable(items[n]) THEN <<items[n]>> \o before ELSE before

\* Variant: the test of lines 187-188 is missing; every pod is appended.
SelectUnfiltered(items) == items

\* main, lines 183-189: the loop that builds restartable_pods
RECURSIVE Select(_)
Select(items) ==
    IF items = <<>> THEN <<>>
    ELSE LET n == Len(items)
             before == Select(SubSeq(items, 1, n - 1))
         IN  IF IsRestartable(items[n]) THEN Append(before, items[n]) ELSE before

\* Variant: line 119 tests phase Running only.
IsSuccessorRunningOnly(pod, pod_name) ==
    /\ StartsWith(pod.name, FirstSegment(pod_name))
    /\ pod.phase = "Running"

\* restart_pod, lines 118-119: the test a listed pod must pass
IsSuccessor(pod, pod_name) ==
    /\ StartsWith(pod.name, FirstSegment(pod_name))
    /\ (pod.phase = "Running" \/ pod.phase = "Succeeded")

\* Variant: the inner loop breaks at the first pod that passes the name test
\* of line 118, whatever its phase.
FirstMatchBreaksOnName(listing, pod_name) ==
    LET named == { k \in 1..Len(listing) :
                     StartsWith(listing[k].name, FirstSegment(pod_name)) }
        first == CHOOSE k \in named : \A m \in named : k <= m
    IN  IF named = {} THEN 0
        ELSE IF IsSuccessor(listing[first], pod_name) THEN first ELSE 0

\* restart_pod, lines 117-121: index of the first listed pod that passes, or 0
FirstMatch(listing, pod_name) ==
    LET hits == { k \in 1..Len(listing) : IsSuccessor(listing[k], pod_name) }
    IN  IF hits = {} THEN 0 ELSE CHOOSE k \in hits : \A m \in hits : k <= m

\* Variant: line 80 reads any(...) for all(...).
IsReadyAnyFlag(status) ==
    \/ /\ status.phase = "Running"
       /\ IF ~status.absent /\ Len(status.ready) > 0
            THEN \E k \in 1..Len(status.ready) : status.ready[k]
            ELSE TRUE
    \/ status.phase = "Succeeded"

\* Variant: lines 77-87 are missing; only phase Succeeded counts.
IsReadySucceededOnly(status) == status.phase = "Succeeded"

\* Variant: the else branch of lines 84-87 is missing.
IsReadyNeedsFlags(status) ==
    \/ /\ status.phase = "Running"
       /\ ~status.absent /\ Len(status.ready) > 0
       /\ \A k \in 1..Len(status.ready) : status.ready[k]
    \/ status.phase = "Succeeded"

\* wait_for_pod_ready, lines 77-90: the tests that lead to return True
\* (container_statuses of None and of [] are both false at line 79)
IsReady(status) ==
    \/ /\ status.phase = "Running"
       /\ IF ~status.absent /\ Len(status.ready) > 0
            THEN \A k \in 1..Len(status.ready) : status.ready[k]
            ELSE TRUE
    \/ status.phase = "Succeeded"

\* ---------------------------------------------------------------- state
\* Nothing has run yet; control is at label.
Fresh(label) ==
    /\ pc = label
    /\ path_idx = 0
    /\ kubeconfig_loaded = FALSE
    /\ pods = <<>>
    /\ restartable_pods = <<>>
    /\ i = 0
    /\ retry = 0
    /\ ret = FALSE
    /\ returned_by = "none"
    /\ successful_restarts = 0
    /\ failed_restarts = 0
    /\ summary = <<>>
    /\ exit_status = 0
    /\ ended_by = "running"
    /\ all_listings = 0
    /\ deleted = <<>>
    /\ outcomes = <<>>
    /\ polls = 0
    /\ waited = 0
    /\ matched = NoPod
    /\ cooled = 0

\* wait_for_pod_ready is not running.
WaitIdle ==
    /\ w_pc = "off"
    /\ w_timeout = 0
    /\ w_elapsed = 0
    /\ w_ret = FALSE
    /\ w_polls = 0
    /\ w_sleeps = 0
    /\ w_last = NoStatus
    /\ w_had_error = FALSE

\* kube979 is not running.
ReportIdle ==
    /\ rep_pc = "off"
    /\ rep_path_idx = 0
    /\ rep_pods = <<>>
    /\ metrics_available = FALSE
    /\ pod_data = <<>>
    /\ total_cpu_usage = 0
    /\ total_memory_usage = 0
    /\ total_cpu_requests = 0
    /\ total_cpu_limits = 0
    /\ total_memory_requests = 0
    /\ total_memory_limits = 0
    /\ rep_rows = <<>>
    /\ rep_lookups = <<>>
    /\ rep_exit_status = 0
    /\ rep_ended_by = "running"

\* kube777 is not running.
RecentIdle ==
    /\ rec_pc = "off"
    /\ rec_path_idx = 0
    /\ rec_pods = <<>>
    /\ now = 0
    /\ rec_idx = 0
    /\ recent_pods = <<>>
    /\ rec_rows = <<>>
    /\ rec_total = <<>>
    /\ rec_exit_status = 0
    /\ rec_ended_by = "running"

\* kube555 is not running.
DeployIdle ==
    /\ dep_pc = "off"
    /\ deployments = <<>>
    /\ dep_idx = 0
    /\ namespace_stats = <<>>
    /\ dep_rows = <<>>
    /\ dep_summary = <<>>
    /\ dep_exit_status = 0
    /\ dep_ended_by = "running"

\* Python's None, a list and a dict, told apart as isinstance does.
PyNone == [type |-> "none", value |-> <<>>]

PyList(items) == [type |-> "list", value |-> items]

PyDict(dict) == [type |-> "dict", value |-> dict]

\* No validator is called.
PlaybookIdle ==
    /\ playbooks = PyNone
    /\ structure_valid = "unset"
    /\ kubectl_valid = "unset"

\* None of the other scripts is running.
ScriptsIdle == ReportIdle /\ RecentIdle /\ DeployIdle /\ PlaybookIdle

\* The process is started as a script, line 256.
Init ==
    /\ WaitIdle
    /\ Fresh("import")
    /\ ScriptsIdle

\* wait_for_pod_ready is called, line 69-72: start_time = time.time()
WaitInit ==
    /\ Fresh("wait_for_pod_ready")
    /\ w_pc = "loop"
    /\ w_timeout \in Timeouts
    /\ w_elapsed = 0
    /\ w_ret = FALSE
    /\ w_polls = 0
    /\ w_sleeps = 0
    /\ w_last = NoStatus
    /\ w_had_error = FALSE
    /\ ScriptsIdle

\* The process is alive and about to execute the statement at label.
At(label) == pc = label /\ ended_by = "running"

\* The process ends with the given status; pc keeps the place where it ended.
Exit(status, why) ==
    /\ exit_status' = status
    /\ ended_by' = why
    /\ UNCHANGED pc
    /\ UNCHANGED <<wait_vars, script_vars>>

\* Control moves on in main or restart_pod, which never call wait_for_pod_ready.
Running(next) ==
    /\ pc' = next
    /\ UNCHANGED <<exit_status, ended_by>>
    /\ UNCHANGED <<wait_vars, script_vars>>

\* The pod main() handed to the current restart_pod call.
Current == restartable_pods[i]

\* --------------------------------------------------------------- actions
\* main, line 141: install_and_import_kubernetes() returns the modules
ImportOk ==
    /\ At("import")
    /\ Running("config")
    /\ UNCHANGED <<cooled, call_hist, path_idx, kubeconfig_loaded, pods, restartable_pods, i, retry, ret,
                   returned_by, successful_restarts, failed_restarts, summary, all_listings,
                   deleted, outcomes>>

\* install_and_import_kubernetes, lines 31-33 and 65-67: sys.exit(1)
ImportFail ==
    /\ At("import")
    /\ Exit(1, "import_failed")
    /\ UNCHANGED <<cooled, call_hist, path_idx, kubeconfig_loaded, pods, restartable_pods, i, retry, ret,
                   returned_by, successful_restarts, failed_restarts, summary, all_listings,
                   deleted, outcomes>>

\* Variant: the break of line 157 is missing; the later paths are tried too.
LoadConfigOkNoBreak ==
    /\ At("config")
    /\ path_idx < Len(config_paths)
    /\ kubeconfig_loaded' = TRUE
    /\ IF path_idx + 1 = Len(config_paths)
         THEN path_idx' = 0 /\ Running("list")
         ELSE path_idx' = path_idx + 1 /\ Running("config")
    /\ UNCHANGED <<cooled, call_hist, pods, restartable_pods, i, retry, ret,
                   returned_by, successful_restarts, failed_restarts, summary, all_listings,
                   deleted, outcomes>>

\* main, lines 152-157: load_kube_config succeeds on the path being tried
LoadConfigOk ==
    /\ At("config")
    /\ path_idx < Len(config_paths)
    /\ kubeconfig_loaded' = TRUE
    /\ path_idx' = 0
    /\ Running("list")
    /\ UNCHANGED <<cooled, call_hist, pods, restartable_pods, i, retry, ret,
                   returned_by, successful_restarts, failed_restarts, summary, all_listings,
                   deleted, outcomes>>

\* main, lines 158-167: load_kube_config raises; after the last path, sys.exit(1)
LoadConfigFail ==
    /\ At("config")
    /\ path_idx < Len(config_paths)
    /\ IF path_idx + 1 = Len(config_paths)
         THEN path_idx' = 0 /\ Exit(1, "config_failed")
         ELSE path_idx' = path_idx + 1 /\ Running("config")
    /\ UNCHANGED <<cooled, call_hist, kubeconfig_loaded, pods, restartable_pods, i, retry, ret,
                   returned_by, successful_restarts, failed_restarts, summary, all_listings,
                   deleted, outcomes>>

\* main, lines 175-179: the all-namespace listing returns
ListAllOk ==
    /\ At("list")
    /\ all_listings' = all_listings + 1
    /\ \E s \in Snapshots :
         /\ pods' = s
         /\ IF s = <<>> THEN Exit(0, "no_pods") ELSE Running("filter")
    /\ UNCHANGED <<cooled, call_hist, path_idx, kubeconfig_loaded, restartable_pods, i, retry, ret,
                   returned_by, successful_restarts, failed_restarts, summary, deleted, outcomes>>

\* main, lines 175 and 249-253: the all-namespace listing raises
ListAllFail ==
    /\ At("list")
    /\ all_listings' = all_listings + 1
    /\ Exit(1, "list_failed")
    /\ UNCHANGED <<cooled, call_hist, path_idx, kubeconfig_loaded, pods, restartable_pods, i, retry, ret,
                   returned_by, successful_restarts, failed_restarts, summary, deleted, outcomes>>

\* Variant: lines 193-195 are missing; the gate is entered with no candidate.
FilterPodsNoReturn ==
    /\ At("filter")
    /\ restartable_pods' = Select(pods)
    /\ Running("gate")
    /\ UNCHANGED <<cooled, call_hist, path_idx, kubeconfig_loaded, pods, i, retry, ret,
                   returned_by, successful_restarts, failed_restarts, summary, all_listings,
                   deleted, outcomes>>

\* main, lines 181-195: build restartable_pods, return when it is empty
FilterPods ==
    /\ At("filter")
    /\ restartable_pods' = Select(pods)
    /\ IF restartable_pods' = <<>> THEN Exit(0, "no_candidates") ELSE Running("gate")
    /\ UNCHANGED <<cooled, call_hist, path_idx, kubeconfig_loaded, pods, i, retry, ret,
                   returned_by, successful_restarts, failed_restarts, summary, all_listings,
                   deleted, outcomes>>

\* main, lines 205-206 and 215-218: sleep(10) returns, the loop starts
GateProceed ==
    /\ At("gate")
    /\ i' = 1
    /\ successful_restarts' = 0
    /\ failed_restarts' = 0
    /\ Running("delete")
    /\ UNCHANGED <<cooled, call_hist, path_idx, kubeconfig_loaded, pods, restartable_pods, retry, ret,
                   returned_by, summary, all_listings, deleted, outcomes>>

\* Variant: the sleep of line 206 stands outside the try of lines 205-209.
GateCancelUncaught ==
    /\ At("gate")
    /\ Exit(130, "interrupted")
    /\ UNCHANGED <<cooled, call_hist, path_idx, kubeconfig_loaded, pods, restartable_pods, i, retry, ret,
                   returned_by, successful_restarts, failed_restarts, summary,
                   all_listings, deleted, outcomes>>

\* main, lines 207-209: KeyboardInterrupt during sleep(10), sys.exit(0)
GateCancel ==
    /\ At("gate")
    /\ Exit(0, "cancelled")
    /\ UNCHANGED <<cooled, call_hist, path_idx, kubeconfig_loaded, pods, restartable_pods, i, retry, ret,
                   returned_by, successful_restarts, failed_restarts, summary, all_listings,
                   deleted, outcomes>>

\* Variant: main does not wait for restart_pod and goes on to the next pod.
DeleteOkNoWait ==
    /\ At("delete")
    /\ deleted' = Append(deleted, i)
    /\ IF i < Len(restartable_pods)
         THEN i' = i + 1 /\ Running("delete")
         ELSE UNCHANGED i /\ Running("grace")
    /\ UNCHANGED <<cooled, call_hist, path_idx, kubeconfig_loaded, pods, restartable_pods, retry, ret,
                   returned_by, successful_restarts, failed_restarts, summary,
                   all_listings, outcomes>>

\* restart_pod, lines 105-106: delete_namespaced_pod returns
DeleteOk ==
    /\ At("delete")
    /\ deleted' = Append(deleted, i)
    /\ Running("grace")
    /\ UNCHANGED <<cooled, call_hist, path_idx, kubeconfig_loaded, pods, restartable_pods, i, retry, ret,
                   returned_by, successful_restarts, failed_restarts, summary, all_listings, outcomes>>

\* Variant: restart_pod has no try/except of its own (lines 101 and 130-132);
\* the error reaches the handler of main, lines 249-253.
DeleteErrorPropagates ==
    /\ At("delete")
    /\ deleted' = Append(deleted, i)
    /\ Exit(1, "restart_failed")
    /\ UNCHANGED <<cooled, call_hist, path_idx, kubeconfig_loaded, pods, restartable_pods, i, retry, ret,
                   returned_by, successful_restarts, failed_restarts, summary,
                   all_listings, outcomes>>

\* Variant: a delete that raised is issued again.
DeleteErrorRetried ==
    /\ At("delete")
    /\ deleted' = Append(deleted, i)
    /\ Running("delete")
    /\ UNCHANGED <<cooled, call_hist, path_idx, kubeconfig_loaded, pods, restartable_pods, i,
                   retry, ret, returned_by, successful_restarts, failed_restarts, summary,
                   all_listings, outcomes>>

\* restart_pod, lines 105 and 130-132: delete_namespaced_pod raises, return False
DeleteError ==
    /\ At("delete")
    /\ deleted' = Append(deleted, i)
    /\ ret' = FALSE
    /\ returned_by' = "delete_error"
    /\ Running("record")
    /\ UNCHANGED <<cooled, call_hist, path_idx, kubeconfig_loaded, pods, restartable_pods, i, retry,
                   successful_restarts, failed_restarts, summary, all_listings, outcomes>>

\* Variant: after the sleep of line 109 restart_pod calls wait_for_pod_ready
\* with the default timeout.
GraceWaitCallsWait ==
    /\ At("grace")
    /\ waited' = waited + grace_sleep
    /\ retry' = 0
    /\ pc' = "poll"
    /\ w_pc' = "loop"
    /\ w_timeout' = default_timeout
    /\ UNCHANGED <<exit_status, ended_by, w_elapsed, w_ret, w_polls, w_sleeps, w_last,
                   w_had_error>>
    /\ UNCHANGED script_vars
    /\ UNCHANGED <<cooled, polls, matched, path_idx, kubeconfig_loaded, pods,
                   restartable_pods, i, ret, returned_by, successful_restarts,
                   failed_restarts, summary, all_listings, deleted, outcomes>>

\* Variant: line 109 is missing.
GraceWaitNoSleep ==
    /\ At("grace")
    /\ retry' = 0
    /\ Running("poll")
    /\ UNCHANGED <<cooled, call_hist, path_idx, kubeconfig_loaded, pods,
                   restartable_pods, i, ret, returned_by, successful_restarts,
                   failed_restarts, summary, all_listings, deleted, outcomes>>

\* restart_pod, lines 109-114: sleep(10), then the retry loop starts
GraceWait ==
    /\ At("grace")
    /\ waited' = waited + grace_sleep
    /\ retry' = 0
    /\ Running("poll")
    /\ UNCHANGED <<cooled, polls, matched, path_idx, kubeconfig_loaded, pods,
                   restartable_pods, i, ret, returned_by, successful_restarts,
                   failed_restarts, summary, all_listings, deleted, outcomes>>

\* Variant: no sleep follows the last attempt.
NextAttemptNoFinalSleep ==
    IF retry + 1 < max_retries
      THEN /\ waited' = waited + retry_sleep
           /\ retry' = retry + 1
           /\ Running("poll")
           /\ UNCHANGED <<ret, returned_by>>
      ELSE /\ ret' = FALSE
           /\ returned_by' = "exhausted"
           /\ Running("record")
           /\ retry' = 0
           /\ UNCHANGED waited

\* Variant: the loop of line 114 is "while True".
NextAttemptNoLimit ==
    /\ waited' = waited + retry_sleep
    /\ retry' = retry + 1
    /\ Running("poll")
    /\ UNCHANGED <<ret, returned_by>>

\* restart_pod, lines 122/125, 114 and 127-128: the attempt failed and sleep(5)
\* is taken; the next retry follows, or the loop is exhausted and False is
\* returned
NextAttempt ==
    /\ waited' = waited + retry_sleep
    /\ IF retry + 1 < max_retries
         THEN /\ retry' = retry + 1
              /\ Running("poll")
              /\ UNCHANGED <<ret, returned_by>>
         ELSE /\ ret' = FALSE
              /\ returned_by' = "exhausted"
              /\ Running("record")
              /\ retry' = 0

\* restart_pod, lines 116-122: list_namespaced_pod returns a listing
PollListing ==
    /\ At("poll")
    /\ polls' = polls + 1
    /\ \E listing \in Listings[Current.namespace] :
         IF FirstMatch(listing, Current.name) # 0
           THEN /\ matched' = listing[FirstMatch(listing, Current.name)]
                /\ ret' = TRUE
                /\ returned_by' = "found"
                /\ Running("record")
                /\ retry' = 0
                /\ UNCHANGED waited
           ELSE /\ NextAttempt
                /\ UNCHANGED matched
    /\ UNCHANGED <<cooled, path_idx, kubeconfig_loaded, pods, restartable_pods, i,
                   successful_restarts, failed_restarts, summary, all_listings,
                   deleted, outcomes>>

\* Variant: the handler of lines 123-125 retries without using up an attempt.
PollErrorFreeRetry ==
    /\ At("poll")
    /\ polls' = polls + 1
    /\ waited' = waited + retry_sleep
    /\ Running("poll")
    /\ UNCHANGED <<cooled, retry, ret, returned_by, matched, path_idx, kubeconfig_loaded, pods,
                   restartable_pods, i, successful_restarts, failed_restarts, summary,
                   all_listings, deleted, outcomes>>

\* restart_pod, lines 116 and 123-125: list_namespaced_pod raises
PollError ==
    /\ At("poll")
    /\ polls' = polls + 1
    /\ NextAttempt
    /\ UNCHANGED <<cooled, matched, path_idx, kubeconfig_loaded, pods, restartable_pods, i,
                   successful_restarts, failed_restarts, summary, all_listings,
                   deleted, outcomes>>

\* main, line 224: restart_pod has returned; its frame is gone
CallReturned ==
    /\ polls' = 0
    /\ waited' = 0
    /\ matched' = NoPod

\* Variant: the loop of line 218 breaks after the first failed restart.
RecordOutcomeStopOnFailure ==
    /\ At("record")
    /\ IF ret
         THEN /\ successful_restarts' = successful_restarts + 1
              /\ UNCHANGED failed_restarts
         ELSE /\ failed_restarts' = failed_restarts + 1
              /\ UNCHANGED successful_restarts
    /\ outcomes' = Append(outcomes, <<i, ret>>)
    /\ returned_by' = "none"
    /\ CallReturned
    /\ Running(IF ret /\ i < Len(restartable_pods) THEN "cooldown" ELSE "summary")
    /\ UNCHANGED <<cooled, path_idx, kubeconfig_loaded, pods, restartable_pods, i, retry, ret,
                   summary, all_listings, deleted>>

\* Variant: line 228 increments successful_restarts as line 225 does.
RecordOutcomeCountsSuccess ==
    /\ At("record")
    /\ successful_restarts' = successful_restarts + 1
    /\ UNCHANGED failed_restarts
    /\ outcomes' = Append(outcomes, <<i, ret>>)
    /\ returned_by' = "none"
    /\ CallReturned
    /\ Running(IF i < Len(restartable_pods) THEN "cooldown" ELSE "summary")
    /\ UNCHANGED <<cooled, path_idx, kubeconfig_loaded, pods, restartable_pods, i, retry, ret,
                   summary, all_listings, deleted>>

\* main, lines 224-232: count the result of restart_pod
RecordOutcome ==
    /\ At("record")
    /\ IF ret
         THEN /\ successful_restarts' = successful_restarts + 1
              /\ UNCHANGED failed_restarts
         ELSE /\ failed_restarts' = failed_restarts + 1
              /\ UNCHANGED successful_restarts
    /\ outcomes' = Append(outcomes, <<i, ret>>)
    /\ returned_by' = "none"
    /\ CallReturned
    /\ Running(IF i < Len(restartable_pods) THEN "cooldown" ELSE "summary")
    /\ UNCHANGED <<cooled, path_idx, kubeconfig_loaded, pods, restartable_pods, i, retry, ret,
                   summary, all_listings, deleted>>

\* Variant: list_pod_for_all_namespaces is called again before each candidate.
CooldownRelists ==
    /\ At("cooldown")
    /\ cooled' = cooled + cooldown_sleep
    /\ all_listings' = all_listings + 1
    /\ i' = i + 1
    /\ Running("delete")
    /\ UNCHANGED <<call_hist, path_idx, kubeconfig_loaded, pods, restartable_pods, retry, ret,
                   returned_by, successful_restarts, failed_restarts, summary,
                   deleted, outcomes>>

\* Variant: line 234 is missing.
CooldownNoSleep ==
    /\ At("cooldown")
    /\ i' = i + 1
    /\ Running("delete")
    /\ UNCHANGED <<cooled, call_hist, path_idx, kubeconfig_loaded, pods, restartable_pods,
                   retry, ret, returned_by, successful_restarts, failed_restarts, summary,
                   all_listings, deleted, outcomes>>

\* main, lines 232-234 and 218: sleep(15), then the next pod
Cooldown ==
    /\ At("cooldown")
    /\ cooled' = cooled + cooldown_sleep
    /\ i' = i + 1
    /\ Running("delete")
    /\ UNCHANGED <<call_hist, path_idx, kubeconfig_loaded, pods, restartable_pods, retry, ret,
                   returned_by, successful_restarts, failed_restarts, summary, all_listings,
                   deleted, outcomes>>

\* Variant: line 242 prints len(pods.items).
SummaryTotalSnapshot ==
    /\ At("summary")
    /\ summary' = <<successful_restarts, failed_restarts, Len(pods)>>
    /\ Exit(0, "completed")
    /\ UNCHANGED <<cooled, call_hist, path_idx, kubeconfig_loaded, pods, restartable_pods, i, retry, ret,
                   returned_by, successful_restarts, failed_restarts, all_listings,
                   deleted, outcomes>>

\* Variant: the branch of lines 244-245 ends with sys.exit(1).
SummaryExitOnFailure ==
    /\ At("summary")
    /\ summary' = <<successful_restarts, failed_restarts, Len(restartable_pods)>>
    /\ Exit(IF failed_restarts > 0 THEN 1 ELSE 0, "completed")
    /\ UNCHANGED <<cooled, call_hist, path_idx, kubeconfig_loaded, pods, restartable_pods, i, retry, ret,
                   returned_by, successful_restarts, failed_restarts, all_listings,
                   deleted, outcomes>>

\* main, lines 236-247: print the summary and return
Summary ==
    /\ At("summary")
    /\ summary' = <<successful_restarts, failed_restarts, Len(restartable_pods)>>
    /\ Exit(0, "completed")
    /\ UNCHANGED <<cooled, call_hist, path_idx, kubeconfig_loaded, pods, restartable_pods, i, retry, ret,
                   returned_by, successful_restarts, failed_restarts, all_listings, deleted, outcomes>>

\* Variant: KeyboardInterrupt is caught by the handler of lines 249-253.
InterruptCaughtByMain ==
    /\ ended_by = "running"
    /\ pc # "gate"
    /\ Exit(1, "interrupted")
    /\ retry' = 0
    /\ CallReturned
    /\ UNCHANGED <<cooled, path_idx, kubeconfig_loaded, pods, restartable_pods, i, ret,
                   returned_by, successful_restarts, failed_restarts, summary, all_listings,
                   deleted, outcomes>>

\* KeyboardInterrupt anywhere but the sleep of lines 205-206: no handler catches
\* it (except Exception, lines 130 and 249, does not), and the interpreter ends
\* the process by SIGINT, which the shell reports as status 130.  The frame of
\* a pending restart_pod call is unwound with the stack.
Interrupt ==
    /\ ended_by = "running"
    /\ pc # "gate"
    /\ Exit(130, "interrupted")
    /\ retry' = 0
    /\ CallReturned
    /\ UNCHANGED <<cooled, path_idx, kubeconfig_loaded, pods, restartable_pods, i, ret,
                   returned_by, successful_restarts, failed_restarts, summary, all_listings,
                   deleted, outcomes>>

\* The steps the process takes by itself.
Program ==
    \/ ImportOk
    \/ ImportFail
    \/ LoadConfigOk
    \/ LoadConfigFail
    \/ ListAllOk
    \/ ListAllFail
    \/ FilterPods
    \/ GateProceed
    \/ DeleteOk
    \/ DeleteError
    \/ GraceWait
    \/ PollListing
    \/ PollError
    \/ RecordOutcome
    \/ Cooldown
    \/ Summary

\* Ctrl+C by the operator.
Operator ==
    \/ GateCancel
    \/ Interrupt

Next == Program \/ Operator

Spec == Init /\ [][Next]_vars

\* Every sleep ends and every API call returns or raises: the process keeps
\* taking its next step for as long as it has one.  The operator need not act.
FairSpec == Spec /\ WF_vars(Program)

\* ------------------------------------------------------ wait_for_pod_ready
\* wait_for_pod_ready is about to execute the statement at label.
WaitAt(label) == w_pc = label /\ ended_by = "running"

\* Variant: line 74 reads "<= timeout".
InBudgetInclusive == w_elapsed <= w_timeout

\* wait_for_pod_ready, line 74: time.time() - start_time < timeout
InBudget == w_elapsed < w_timeout

\* wait_for_pod_ready, line 94: time.sleep(5), then back to line 74
WaitSleep ==
    /\ w_elapsed' = w_elapsed + wait_sleep
    /\ w_sleeps' = w_sleeps + 1
    /\ w_last' = NoStatus
    /\ w_pc' = "loop"
    /\ UNCHANGED w_ret

\* wait_for_pod_ready, lines 74 and 96-97: the budget is used up, return False
WaitTimeout ==
    /\ WaitAt("loop")
    /\ ~InBudget
    /\ w_ret' = FALSE
    /\ w_pc' = "done"
    /\ UNCHANGED <<w_timeout, w_elapsed, w_polls, w_sleeps, w_last, w_had_error>>
    /\ UNCHANGED <<main_vars, script_vars>>

\* wait_for_pod_ready, lines 74-76: read_namespaced_pod returns after d seconds
WaitReadPod ==
    /\ WaitAt("loop")
    /\ InBudget
    /\ \E status \in Statuses, d \in 0..MaxLatency :
         /\ w_last' = status
         /\ w_elapsed' = w_elapsed + d
    /\ w_polls' = w_polls + 1
    /\ w_pc' = "check"
    /\ UNCHANGED <<w_timeout, w_ret, w_sleeps, w_had_error>>
    /\ UNCHANGED <<main_vars, script_vars>>

\* wait_for_pod_ready, lines 74-76 and 91: read_namespaced_pod raises after d seconds
WaitReadError ==
    /\ WaitAt("loop")
    /\ InBudget
    /\ \E d \in 0..MaxLatency : w_elapsed' = w_elapsed + d
    /\ w_last' = ReadFailed
    /\ w_had_error' = TRUE
    /\ w_polls' = w_polls + 1
    /\ w_pc' = "except"
    /\ UNCHANGED <<w_timeout, w_ret, w_sleeps>>
    /\ UNCHANGED <<main_vars, script_vars>>

\* wait_for_pod_ready, lines 77-90 and 94: return True, or sleep and go on
WaitCheck ==
    /\ WaitAt("check")
    /\ IF IsReady(w_last)
         THEN /\ w_ret' = TRUE
              /\ w_pc' = "done"
              /\ UNCHANGED <<w_elapsed, w_sleeps, w_last>>
         ELSE WaitSleep
    /\ UNCHANGED <<w_timeout, w_polls, w_had_error>>
    /\ UNCHANGED <<main_vars, script_vars>>

\* Variant: the handler of line 91 gives up and returns False.
WaitExceptGivesUp ==
    /\ WaitAt("except")
    /\ w_ret' = FALSE
    /\ w_pc' = "done"
    /\ UNCHANGED <<w_timeout, w_elapsed, w_polls, w_sleeps, w_last, w_had_error>>
    /\ UNCHANGED <<main_vars, script_vars>>

\* wait_for_pod_ready, lines 91-94: the error is printed, then the sleep
WaitExcept ==
    /\ WaitAt("except")
    /\ WaitSleep
    /\ UNCHANGED <<w_timeout, w_polls, w_had_error>>
    /\ UNCHANGED <<main_vars, script_vars>>

WaitNext ==
    \/ WaitTimeout
    \/ WaitReadPod
    \/ WaitReadError
    \/ WaitCheck
    \/ WaitExcept

\* A call of wait_for_pod_ready.
WaitSpec == WaitInit /\ [][WaitNext]_vars

\* The module: the script is run, or wait_for_pod_ready is called.
ModuleInit == Init \/ WaitInit

ModuleNext == Next \/ WaitNext

ModuleSpec == ModuleInit /\ [][ModuleNext]_vars

\* ---------------------------------------------------------------- claims
Ended == ended_by # "running"

\* restartable_pods has been built (line 189 has run for every pod).
Filtered == pc \notin {"import", "config", "list", "filter"} \/ ended_by = "no_candidates"

Range(s) == { s[k] : k \in 1..Len(s) }

\* r can be obtained from s by deleting elements.
RECURSIVE IsSubsequence(_, _)
IsSubsequence(r, s) ==
    IF r = <<>> THEN TRUE
    ELSE IF s = <<>> THEN FALSE
    ELSE IF Head(r) = Head(s) THEN IsSubsequence(Tail(r), Tail(s))
    ELSE IsSubsequence(r, Tail(s))

\* C1: restartable_pods never holds a pod of a protected namespace
\* (kube-system), whatever snapshot the all-namespace listing returned.
C1_NoProtectedCandidate ==
    \A k \in 1..Len(restartable_pods) :
        restartable_pods[k].namespace \notin {"kube-system"}

\* C1 witness: candidates were selected from a snapshot holding a kube-system pod.
C1_Witness ==
    /\ Filtered
    /\ restartable_pods # <<>>
    /\ \E k \in 1..Len(pods) : pods[k].namespace = "kube-system"

\* C2: restartable_pods is a subsequence of pods.items: relative order is
\* kept and no pod occurs more often than in the snapshot.
C2_Subsequence ==
    /\ IsSubsequence(restartable_pods, pods)
    /\ \A p \in Range(restartable_pods) :
         Cardinality({ k \in 1..Len(restartable_pods) : restartable_pods[k] = p })
           <= Cardinality({ k \in 1..Len(pods) : pods[k] = p })

\* C2 witness: two candidates were selected around a pod that was left out.
C2_Witness ==
    /\ Filtered
    /\ Len(pods) = 3
    /\ restartable_pods = <<pods[1], pods[3]>>

\* C3: once built, restartable_pods holds exactly the snapshot pods outside
\* kube-system in phase Running or Pending, each as often as in the snapshot;
\* pods in phase Succeeded, Failed or Unknown are never in it.
C3_ExactSelection ==
    Filtered =>
      /\ \A k \in 1..Len(pods) :
           (pods[k].namespace # "kube-system" /\ pods[k].phase \in {"Running", "Pending"})
             <=> pods[k] \in Range(restartable_pods)
      /\ Range(restartable_pods) \subseteq Range(pods)
      /\ Len(restartable_pods) =
           Cardinality({ k \in 1..Len(pods) :
                           /\ pods[k].namespace # "kube-system"
                           /\ pods[k].phase \in {"Running", "Pending"} })
      /\ \A k \in 1..Len(restartable_pods) :
           restartable_pods[k].phase \notin {"Succeeded", "Failed", "Unknown"}

\* C3 witness: a Pending pod was selected and a pod in another phase left out.
C3_Witness ==
    /\ Filtered
    /\ \E k \in 1..Len(restartable_pods) : restartable_pods[k].phase = "Pending"
    /\ \E k \in 1..Len(pods) :
         pods[k].namespace = "app" /\ pods[k].phase \in {"Succeeded", "Failed", "Unknown"}

\* Candidates whose delete request was issued and whose result is not counted.
InFlight ==
    { j \in Range(deleted) : \A m \in 1..Len(outcomes) : outcomes[m][1] # j }

\* C4: the delete request for candidate j+1 is never issued before the
\* outcome of candidate j is counted, and at most one candidate is between
\* its delete request and its counted outcome.
C4_OneAtATime ==
    /\ \A j \in 1..Len(deleted) : deleted[j] = j
    /\ \A j \in 2..Len(deleted) : \E m \in 1..Len(outcomes) : outcomes[m][1] = j - 1
    /\ Cardinality(InFlight) <= 1

\* C4 witness: the second candidate is being polled after the first was counted.
C4_Witness ==
    /\ At("poll")
    /\ Len(deleted) = 2
    /\ Len(outcomes) = 1
    /\ InFlight = {2}

\* C5: when delete_namespaced_pod raises for candidate k, restart_pod returns
\* False and the failure is counted in failed_restarts for k; k not being the
\* last, the process then takes the cooldown and calls restart_pod for
\* candidate k+1, whose first statement issues the delete request for k+1
\* (unless Ctrl+C ends the process first).
C5_EvictionFailureIsolated ==
    /\ [](returned_by = "delete_error" =>
            /\ pc = "record"
            /\ ~ret
            /\ i = Len(deleted)
            /\ i = Len(outcomes) + 1)
    /\ [][(returned_by = "delete_error" /\ returned_by' # "delete_error") =>
            /\ failed_restarts' = failed_restarts + 1
            /\ successful_restarts' = successful_restarts
            /\ outcomes' = Append(outcomes, <<i, FALSE>>)
            /\ pc' = IF i < Len(restartable_pods) THEN "cooldown" ELSE "summary"]_vars
    /\ [][(pc = "cooldown" /\ pc' # "cooldown") => (pc' = "delete" /\ i' = i + 1)]_vars
    /\ [][(pc = "delete" /\ pc' # "delete") => deleted' = Append(deleted, i)]_vars
    /\ (returned_by = "delete_error" /\ i < Len(restartable_pods))
         ~> (pc = "delete" \/ ended_by = "interrupted")

\* C5 witness: the delete of the second of three candidates has just raised.
C5_Witness ==
    /\ At("record")
    /\ returned_by = "delete_error"
    /\ i = 2
    /\ Len(restartable_pods) = 3

\* The cycle has started: sleep(10) of line 206 returned.
GatePassed == i >= 1

\* C6: past the gate, outcomes are counted one per candidate in candidate
\* order; however many deletes raise, listings raise or discoveries run out
\* of retries, the cycle reaches its summary with one outcome counted for
\* every candidate (unless Ctrl+C ends the process first), and no run ends
\* otherwise with a candidate left uncounted.
C6_OneOutcomePerCandidate ==
    /\ [](/\ Len(outcomes) <= Len(restartable_pods)
          /\ \A m \in 1..Len(outcomes) : outcomes[m][1] = m
          /\ pc = "summary" => Len(outcomes) = Len(restartable_pods)
          /\ (GatePassed /\ Ended /\ ended_by # "interrupted") =>
               (ended_by = "completed" /\ Len(outcomes) = Len(restartable_pods)))
    /\ GatePassed ~>
         \/ ended_by = "completed" /\ Len(outcomes) = Len(restartable_pods)
         \/ ended_by = "interrupted"

\* C6 witness: a completed cycle of three whose first two candidates failed.
C6_Witness ==
    /\ ended_by = "completed"
    /\ outcomes = <<<<1, FALSE>>, <<2, FALSE>>, <<3, TRUE>>>>

\* C7: a Ctrl+C during the sleep(10) of line 206 ends the process with status
\* 0, no delete request issued and no outcome counted.
C7_GateCancelTouchesNothing ==
    (Ended /\ pc = "gate") =>
      /\ ended_by = "cancelled"
      /\ exit_status = 0
      /\ deleted = <<>>
      /\ outcomes = <<>>
      /\ successful_restarts = 0
      /\ failed_restarts = 0
      /\ summary = <<>>

\* C7 witness: the operator cancelled a cycle of at least two candidates.
C7_Witness ==
    /\ pc = "gate"
    /\ ended_by = "cancelled"
    /\ Len(restartable_pods) >= 2

\* Number of counted outcomes with result b.
Counted(b) == Cardinality({ m \in 1..Len(outcomes) : outcomes[m][2] = b })

\* C8: successful_restarts + failed_restarts is the number of candidates
\* processed so far; the summary of a completed cycle reports the number of
\* True results, the number of False results, and a total that is their sum
\* and the length of the candidate list.
C8_CountsAddUp ==
    /\ successful_restarts = Counted(TRUE)
    /\ failed_restarts = Counted(FALSE)
    /\ successful_restarts + failed_restarts = Len(outcomes)
    /\ pc \in {"cooldown", "summary"} => successful_restarts + failed_restarts = i
    /\ ended_by = "completed" =>
         /\ summary = <<Counted(TRUE), Counted(FALSE), Len(restartable_pods)>>
         /\ summary[1] + summary[2] = summary[3]
    /\ (ended_by = "completed" /\ outcomes = <<<<1, TRUE>>, <<2, FALSE>>, <<3, TRUE>>>>) =>
         summary = <<2, 1, 3>>

\* C8 witness: a completed cycle with outcomes success, fail, success.
C8_Witness ==
    /\ ended_by = "completed"
    /\ outcomes = <<<<1, TRUE>>, <<2, FALSE>>, <<3, TRUE>>>>
    /\ summary = <<2, 1, 3>>

\* The snapshot of the end-to-end scenario: three Running pods, two in app and
\* one in kube-system, in any positions.
Scenario ==
    /\ Len(pods) = 3
    /\ \A k \in 1..3 : pods[k].phase = "Running"
    /\ Cardinality({ k \in 1..3 : pods[k].namespace = "app" }) = 2
    /\ Cardinality({ k \in 1..3 : pods[k].namespace = "kube-system" }) = 1

InApp(pod) == pod.namespace = "app"

\* C9: for the scenario snapshot the candidate list is the two app pods in
\* snapshot order, a completed cycle counts two outcomes and prints total 2.
C9_EndToEnd ==
    Scenario =>
      /\ Filtered =>
           /\ Len(restartable_pods) = 2
           /\ \A k \in 1..Len(restartable_pods) : restartable_pods[k].namespace = "app"
           /\ restartable_pods = SelectSeq(pods, InApp)
      /\ ended_by = "completed" =>
           /\ Len(outcomes) = 2
           /\ summary[3] = 2

\* C9 witness: the scenario ran to its summary with kube-system listed first.
C9_Witness ==
    /\ Scenario
    /\ pods[1].namespace = "kube-system"
    /\ ended_by = "completed"

\* C10 as stated: the exit status is non-zero exactly when every kubeconfig
\* path failed or the all-namespace listing raised.
C10_AsStated ==
    Ended => (exit_status # 0 <=> ended_by \in {"config_failed", "list_failed"})

\* C10, amended: the exit status is non-zero exactly when the kubernetes
\* module could not be installed or imported, every kubeconfig path failed,
\* the all-namespace listing raised, or Ctrl+C arrived outside the sleep of
\* line 206; a completed cycle exits with 0 however many restarts failed.
C10_ExitStatus ==
    Ended =>
      /\ exit_status # 0 <=>
           ended_by \in {"import_failed", "config_failed", "list_failed", "interrupted"}
      /\ ended_by \in {"import_failed", "config_failed", "list_failed"} => exit_status = 1
      /\ exit_status = 0 <=>
           ended_by \in {"no_pods", "no_candidates", "cancelled", "completed"}
      /\ ended_by = "completed" => exit_status = 0

\* C10 witness: a completed cycle in which every candidate failed exits with 0.
C10_Witness ==
    /\ ended_by = "completed"
    /\ Len(restartable_pods) >= 2
    /\ failed_restarts = Len(restartable_pods)
    /\ exit_status = 0

\* C15: after a successful delete every attempt of restart_pod makes one
\* list_namespaced_pod call, whether it returns or raises; the calls never
\* number more than 30, and False is returned only after exactly 30 of them.
C15_ThirtyListings ==
    /\ polls <= max_retries
    /\ At("poll") => (polls = retry /\ deleted # <<>> /\ deleted[Len(deleted)] = i)
    /\ (At("record") /\ returned_by = "exhausted") => (~ret /\ polls = max_retries)
    /\ (At("record") /\ ~ret /\ returned_by # "delete_error") => returned_by = "exhausted"
    /\ (At("record") /\ returned_by = "found") => (ret /\ polls >= 1)

C15_Witness ==
    /\ At("record") /\ ~ret
    /\ returned_by = "exhausted"
    /\ polls = max_retries
    /\ waited = grace_sleep + max_retries * retry_sleep

\* The readiness predicate applied to a listed pod: phase Running with every
\* reported container flag true (or none reported), or phase Succeeded.
ListedReady(pod) ==
    \/ /\ pod.phase = "Running"
       /\ \A k \in 1..Len(pod.container_statuses) : pod.container_statuses[k]
    \/ pod.phase = "Succeeded"

\* C17, as stated: restart_pod returns True only on a prefix-matching listed
\* pod that satisfies the readiness predicate.  The code tests the phase
\* only (line 119), so a Running pod with a container that is not ready is
\* accepted.
C17_AsStated ==
    (At("record") /\ returned_by = "found")
        => (StartsWith(matched.name, FirstSegment(Current.name)) /\ ListedReady(matched))

\* The pod is in the snapshot main() took before the cycle.
InSnapshot(pod) == \E k \in 1..Len(pods) : SameIdentity(pods[k], pod)

\* C18, as stated: the pod that made restart_pod return True is a replacement:
\* neither the evicted pod under its own name nor a pod of the snapshot.
\* The code accepts any listed pod whose name starts with the first segment
\* of the evicted pod's name (line 118).
C18_AsStated ==
    (At("record") /\ returned_by = "found")
        => (matched.name # Current.name /\ ~InSnapshot(matched))

\* The cycle ran to the summary with an outcome for every candidate.
CycleCompleted ==
    /\ ended_by = "completed"
    /\ Len(outcomes) = Len(restartable_pods)
    /\ summary # <<>>

C20_GraceBeforeFirstListing ==
    /\ At("grace") => (waited = 0 /\ polls = 0)
    /\ At("poll") => waited = grace_sleep + polls * retry_sleep
    /\ polls >= 1 => waited >= grace_sleep
    /\ (At("record") /\ returned_by = "delete_error") => (~ret /\ waited = 0 /\ polls = 0)
    /\ (At("record") /\ returned_by # "delete_error") => waited >= grace_sleep

C20_Witness ==
    /\ At("record") /\ returned_by = "found"
    /\ polls = 1
    /\ waited = grace_sleep

\* ------------------------------------------- claims on wait_for_pod_ready
\* The status reports phase Running and a non-empty list of flags, all true.
FullyReady(status) ==
    /\ status.phase = "Running"
    /\ ~status.absent
    /\ Len(status.ready) > 0
    /\ \A k \in 1..Len(status.ready) : status.ready[k]

\* wait_for_pod_ready has returned.
WaitDone == w_pc = "done"

\* C11: with a positive timeout the first status query is made, and when it
\* reports phase Running with a non-empty list of container flags that are
\* all true, wait_for_pod_ready returns True at once: one query, no sleep.
C11_FirstPollReady ==
    /\ [](WaitDone /\ w_polls = 0 => w_timeout = 0)
    /\ [][(w_timeout > 0 /\ w_pc = "check" /\ w_polls = 1 /\ FullyReady(w_last))
            => (WaitDone' /\ w_ret' /\ w_polls' = 1 /\ w_sleeps' = 0 /\ w_last' = w_last)]_vars

C11_Witness ==
    /\ WaitDone /\ w_ret
    /\ w_timeout > 0
    /\ w_polls = 1 /\ w_sleeps = 0
    /\ FullyReady(w_last) /\ Len(w_last.ready) = MaxContainers

\* The status reports phase Running and no container flag: None or [].
RunningNoFlags(status) ==
    /\ status.phase = "Running"
    /\ (status.absent \/ Len(status.ready) = 0)

\* C12: any poll that reports phase Running with container_statuses absent
\* or empty makes wait_for_pod_ready return True, with no further sleep.
C12_RunningWithoutFlags ==
    [][(w_pc = "check" /\ RunningNoFlags(w_last))
        => (WaitDone' /\ w_ret' /\ w_sleeps' = w_sleeps /\ w_polls' = w_polls)]_vars

C12_Witness ==
    /\ WaitDone /\ w_ret
    /\ w_last = Status("Running", TRUE, <<>>)
    /\ w_polls = 2 /\ w_sleeps = 1

\* ceil(B / 5) for the poll interval of line 94
CeilPolls(B) == (B + wait_sleep - 1) \div wait_sleep

\* Time that passed during the call besides its sleeps.
Lag == w_elapsed - wait_sleep * w_sleeps

\* C14: wait_for_pod_ready(timeout=B) never makes more than ceil(B/5) status
\* queries, and when it returns False (no poll satisfied readiness) in a call
\* whose time passed only in the 5-second sleeps, it has made exactly
\* ceil(B/5) of them: 60 for B = 300, none for B = 0.
C14_TimeoutAfterCeilPolls ==
    /\ w_polls <= CeilPolls(w_timeout)
    /\ (WaitDone /\ ~w_ret) => w_sleeps = w_polls
    /\ (WaitDone /\ ~w_ret /\ Lag = 0) => w_polls = CeilPolls(w_timeout)

C14_Witness ==
    /\ WaitDone /\ ~w_ret
    /\ w_timeout = default_timeout
    /\ Lag = 0
    /\ w_polls = 60

\* ------------------------------------- claims on both polling functions
\* The listing holds a pod in phase Succeeded whose name starts with the
\* first segment of pod_name.
HasSucceededMatch(listing, pod_name) ==
    \E k \in 1..Len(listing) :
        /\ StartsWith(listing[k].name, FirstSegment(pod_name))
        /\ listing[k].phase = "Succeeded"

\* C13: phase Succeeded counts as success in both functions: a poll of
\* wait_for_pod_ready that reports it returns True (unless Ctrl+C ends the
\* process first), every listing restart_pod can receive that holds a
\* prefix-matching pod in phase Succeeded yields a match, and a match in
\* phase Succeeded is returned as True.
C13_SucceededIsSuccess ==
    /\ [][(w_pc = "check" /\ w_last.phase = "Succeeded")
           => ((WaitDone' /\ w_ret' /\ w_polls' = w_polls) \/ ended_by' = "interrupted")]_vars
    /\ [](At("poll") =>
            \A listing \in Listings[Current.namespace] :
                HasSucceededMatch(listing, Current.name)
                    => FirstMatch(listing, Current.name) # 0)
    /\ [](matched.phase = "Succeeded" => pc = "record" /\ ret /\ returned_by = "found")

\* restart_pod has returned True on a prefix-matching pod in phase Succeeded.
C13_Witness ==
    /\ pc = "record" /\ ret
    /\ matched.phase = "Succeeded"
    /\ StartsWith(matched.name, FirstSegment(Current.name))

\* C16: an error raised by a status query ends neither function and is not
\* handed to the caller.  In wait_for_pod_ready the handler is followed by the
\* sleep and the next test of the budget, True can still be returned later,
\* and False is returned only with the budget used up.  In restart_pod every
\* attempt, raising or not, is followed by the next attempt unless it returns
\* True or is the 30th, and no exit with status 1 happens once the cycle has
\* started.  (Ctrl+C is not an error of the query and does end the process.)
C16_QueryErrorsSwallowed ==
    /\ [][w_pc = "except"
           => ((w_pc' = "loop" /\ w_sleeps' = w_sleeps + 1) \/ ended_by' = "interrupted")]_vars
    /\ []((WaitDone /\ ~w_ret) => ~InBudget)
    /\ []((WaitDone /\ w_ret) => IsReady(w_last))
    /\ [][(At("poll") /\ ended_by' = "running")
           => \/ pc' = "poll" /\ retry' = retry + 1
              \/ pc' = "record" /\ ret' /\ returned_by' = "found"
              \/ pc' = "record" /\ ~ret' /\ polls' = max_retries]_vars
    /\ [](exit_status = 1 => deleted = <<>>)

\* wait_for_pod_ready has returned True although an earlier query raised.
C16_Witness ==
    /\ WaitDone /\ w_ret
    /\ w_had_error
    /\ w_polls >= 2

\* ------------------------------------------------ claims on the cycle, II
\* C21: a 15-second cooldown is taken after every candidate but the last,
\* whatever restart_pod returned for it: the delete for candidate i is issued
\* with i - 1 cooldowns elapsed and i - 1 outcomes counted, and a completed
\* cycle over n candidates has taken exactly n - 1 cooldowns.
C21_CooldownBetweenCandidates ==
    /\ GatePassed => cooled = cooldown_sleep * (i - 1)
    /\ At("delete") => Len(outcomes) = i - 1
    /\ At("cooldown") => (Len(outcomes) = i /\ i < Len(restartable_pods))
    /\ Len(deleted) >= 1 => cooled >= cooldown_sleep * (Len(deleted) - 1)
    /\ CycleCompleted => cooled = cooldown_sleep * (Len(restartable_pods) - 1)

C21_Witness ==
    /\ CycleCompleted
    /\ Len(restartable_pods) = MaxPods
    /\ cooled = cooldown_sleep * (MaxPods - 1)
    /\ successful_restarts >= 1
    /\ failed_restarts >= 1

\* C22: delete_namespaced_pod is called at most once for each candidate, in
\* the order of the list; a completed cycle has called it exactly once for
\* each; after a delete that raised, the candidate is counted as failed and
\* no second delete is issued for it.
C22_OneDeletePerCandidate ==
    /\ Len(deleted) <= Len(restartable_pods)
    /\ \A k \in 1..Len(deleted) : deleted[k] = k
    /\ \A k \in 1..Len(outcomes) : outcomes[k][1] = k
    /\ Len(outcomes) <= Len(deleted)
    /\ (At("record") /\ returned_by = "delete_error") => (~ret /\ Len(deleted) = i)
    /\ CycleCompleted => Len(deleted) = Len(restartable_pods)

C22_Witness ==
    /\ CycleCompleted
    /\ deleted = <<1, 2, 3>>
    /\ outcomes[2] = <<2, FALSE>>
    /\ failed_restarts = 1

\* The snapshot has been taken and filtered.
SnapshotTaken == pc \notin {"import", "config", "list"}

DeleteTarget(k) == restartable_pods[deleted[k]]

\* C24: every delete request issued so far names a pod of the snapshot that
\* is outside kube-system and was in phase Running or Pending there; it is
\* issued for the candidate's own namespace and name, so a pod that is not in
\* the snapshot (a replacement) is never named.
C24_DeletesOnlyCandidates ==
    \A k \in 1..Len(deleted) :
        /\ deleted[k] \in 1..Len(restartable_pods)
        /\ \E m \in 1..Len(pods) : pods[m] = DeleteTarget(k)
        /\ DeleteTarget(k).namespace # "kube-system"
        /\ DeleteTarget(k).phase \notin {"Succeeded", "Failed", "Unknown"}
        /\ DeleteTarget(k).phase \in {"Running", "Pending"}
        /\ DeleteTarget(k).name # web9

\* Two deletes were issued from a snapshot that also holds a kube-system pod,
\* and a replacement was seen in the cycle.
C24_Witness ==
    /\ Len(deleted) = 2
    /\ Len(pods) = MaxPods
    /\ \E m \in 1..Len(pods) : pods[m].namespace = "kube-system"
    /\ At("record") /\ matched.name = web9

\* Steps one candidate can take at most: delete, grace wait, max_retries
\* attempts, count, cooldown.
StepsPerCandidate == max_retries + 4

\* An upper bound on the steps the process can still take.
StepsLeft ==
    IF Ended THEN 0
    ELSE LET cycle == (Len(restartable_pods) - i) * StepsPerCandidate
             top   == MaxPods * StepsPerCandidate
         IN  CASE pc = "import"   -> top + Len(config_paths) + 6
               [] pc = "config"   -> top + Len(config_paths) + 5 - path_idx
               [] pc = "list"     -> top + 4
               [] pc = "filter"   -> top + 3
               [] pc = "gate"     -> top + 2
               [] pc = "delete"   -> cycle + max_retries + 4
               [] pc = "grace"    -> cycle + max_retries + 3
               [] pc = "poll"     -> cycle + max_retries + 2 - retry
               [] pc = "record"   -> cycle + 2
               [] pc = "cooldown" -> cycle + 1
               [] pc = "summary"  -> 1

\* C25, as stated: a run that is not interrupted and has made its
\* all-namespace listing call ends with the summary printed.
C25_AsStated ==
    (Ended /\ ended_by \notin {"interrupted", "cancelled"} /\ all_listings = 1)
        => summary # <<>>

\* C25, amended: every step, whatever the API answers, lowers a bound on the
\* steps left, and the process always has a next step until it has ended; it
\* makes at most one all-namespace listing, one delete per candidate and 30
\* namespace listings per delete.  A run that passes the pre-cycle wait and
\* is not interrupted ends with the summary; a run that ends before it
\* (listing failed, no pod, no candidate) prints none.
C25_TerminatesWithinBudget ==
    /\ [][StepsLeft' < StepsLeft]_vars
    /\ [](StepsLeft >= 0)
    /\ [](Ended \/ ENABLED Program)
    /\ [](all_listings <= 1 /\ Len(deleted) <= Len(restartable_pods))
    /\ [](polls <= max_retries /\ (polls > 0 => Len(deleted) = i))
    /\ []((Ended /\ GatePassed /\ ended_by # "interrupted") => CycleCompleted)
    /\ []((Ended /\ ~GatePassed) => summary = <<>>)

\* The last of MaxPods candidates has used up its 30 listings, as did every
\* candidate before it or its delete raised.
C25_Witness ==
    /\ At("record") /\ i = MaxPods
    /\ returned_by = "exhausted"
    /\ polls = max_retries
    /\ failed_restarts = MaxPods - 1

\* The listed pod is one the claim lets restart_pod succeed on: in the
\* candidate's namespace, named with the first hyphen-delimited segment of the
\* candidate's name as a prefix, in phase Running or Succeeded.
Discoverable(pod, candidate) ==
    /\ pod.namespace = candidate.namespace
    /\ Len(pod.name) >= Len(FirstSegment(candidate.name))
    /\ SubSeq(pod.name, 1, Len(FirstSegment(candidate.name))) = FirstSegment(candidate.name)
    /\ pod.phase \in {"Running", "Succeeded"}

\* C26: restart_pod returns True exactly when its delete returned and one of
\* its at most 30 listings, taken after the grace wait, held a discoverable
\* pod: a listing yields a match if and only if it holds one, the match is
\* the first discoverable pod in listing order (pods before it that match in
\* name but not in phase are passed over), True is returned on it, and False
\* is returned only by a delete that raised or after 30 listings.  (What a
\* listing yields depends on the listing and the candidate only; it is
\* evaluated when the first attempt for a candidate is due.)
C26_TrueIffDiscovered ==
    /\ []((At("poll") /\ retry = 0) =>
            \A listing \in Listings[Current.namespace] :
                LET m == FirstMatch(listing, Current.name)
                IN  /\ (m # 0) <=> (\E k \in 1..Len(listing) : Discoverable(listing[k], Current))
                    /\ m # 0 => /\ Discoverable(listing[m], Current)
                                /\ \A j \in 1..(m - 1) : ~Discoverable(listing[j], Current))
    /\ []((At("record") /\ ret) =>
            /\ returned_by = "found"
            /\ Len(deleted) = i
            /\ waited >= grace_sleep
            /\ polls \in 1..max_retries
            /\ Discoverable(matched, Current))
    /\ []((At("record") /\ ~ret) =>
            /\ matched = NoPod
            /\ returned_by \in {"delete_error", "exhausted"}
            /\ returned_by = "exhausted" => polls = max_retries)
    /\ [][(At("poll") /\ pc' = "record" /\ ret')
           => \E listing \in Listings[Current.namespace] :
                /\ FirstMatch(listing, Current.name) # 0
                /\ matched' = listing[FirstMatch(listing, Current.name)]]_vars

\* True was returned on the second pod of a listing whose first pod matches
\* in name but is Pending.
C26_Witness ==
    /\ At("record") /\ ret
    /\ polls > 1
    /\ \E listing \in Listings[Current.namespace] :
         /\ Len(listing) = 2
         /\ StartsWith(listing[1].name, FirstSegment(Current.name))
         /\ listing[1].phase = "Pending"
         /\ matched = listing[2]

\* C28: when the delete returned and no listing held a successor, restart_pod
\* has slept the 10-second grace wait and 5 seconds after each of its 30
\* attempts, the last one included: 160 seconds, 150 of them in the loop,
\* before False reaches main.
C28_ExhaustedAfter160 ==
    /\ (At("record") /\ returned_by = "exhausted")
         => /\ waited = 160
            /\ waited - grace_sleep = 150
            /\ waited = grace_sleep + max_retries * retry_sleep
    /\ (At("poll") /\ retry = max_retries - 1) => waited = 160 - retry_sleep

C28_Witness ==
    /\ At("record") /\ returned_by = "exhausted"
    /\ i = 2
    /\ waited = 160
    /\ cooled = cooldown_sleep

\* C29: a run of the script never enters wait_for_pod_ready, so it makes no
\* read_namespaced_pod call and never waits on the 300-second budget; the
\* calls it makes are the one all-namespace listing, which comes first, the
\* deletes of candidates and the namespace listings of restart_pod.
C29_NoPointLookup ==
    /\ w_pc = "off"
    /\ w_polls = 0 /\ w_sleeps = 0 /\ w_elapsed = 0
    /\ w_last = NoStatus /\ ~w_had_error
    /\ w_timeout # default_timeout
    /\ (Len(deleted) > 0 \/ polls > 0) => all_listings = 1
    /\ \A k \in 1..Len(deleted) : deleted[k] \in 1..Len(restartable_pods)
    /\ polls > 0 => (pc \in {"poll", "record"} /\ Len(deleted) = i)

C29_Witness ==
    /\ CycleCompleted
    /\ all_listings = 1
    /\ Len(deleted) = MaxPods
    /\ successful_restarts = MaxPods
    /\ w_pc = "off" /\ w_polls = 0

\* C30: a run whose snapshot is empty ends at line 179, and a run whose
\* filter keeps no pod ends at line 195: exit status 0, the pre-cycle wait
\* never entered, no delete, no namespace listing, no sleep of the cycle, no
\* summary.  The filter is reached only with a non-empty snapshot, and the
\* gate and the cycle only with a candidate.
C30_NothingToRestart ==
    /\ ended_by \in {"no_pods", "no_candidates"}
         => /\ exit_status = 0
            /\ i = 0
            /\ restartable_pods = <<>>
            /\ deleted = <<>> /\ outcomes = <<>>
            /\ polls = 0 /\ waited = 0 /\ cooled = 0
            /\ summary = <<>>
            /\ all_listings = 1
    /\ ended_by = "no_pods" => (pc = "list" /\ pods = <<>>)
    /\ ended_by = "no_candidates"
         => (pc = "filter" /\ pods # <<>>
             /\ \A k \in 1..Len(pods) :
                   pods[k].namespace = "kube-system"
                   \/ pods[k].phase \notin {"Running", "Pending"})
    /\ (pc = "filter" /\ ended_by # "no_candidates" /\ all_listings = 1) => pods # <<>>
    /\ pc \in {"gate", "delete", "grace", "poll", "record", "cooldown", "summary"}
         => restartable_pods # <<>>

\* The snapshot held MaxPods pods, none of them restartable.
C30_Witness ==
    /\ ended_by = "no_candidates"
    /\ Len(pods) = MaxPods
    /\ exit_status = 0 /\ summary = <<>>

\* C31: load_kube_config is tried on config_paths[path_idx + 1], starting
\* with the first path and moving on by one after each failure; the first
\* success ends the loop (no path is tried with kubeconfig_loaded true, and
\* the loop is never entered again); when the last path has failed the
\* process exits with status 1, no cluster API call made.
C31_KubeconfigPaths ==
    /\ [](At("import") => path_idx = 0)
    /\ [](At("config") => (~kubeconfig_loaded /\ path_idx \in 0..(Len(config_paths) - 1)))
    /\ [][(At("config") /\ pc' = "config" /\ ended_by' = "running")
           => (path_idx' = path_idx + 1 /\ ~kubeconfig_loaded')]_vars
    /\ [][(At("config") /\ pc' # "config") => (pc' = "list" /\ kubeconfig_loaded')]_vars
    /\ [][pc \notin {"import", "config"} => pc' # "config"]_vars
    /\ [][(At("config") /\ ended_by' = "config_failed")
           => path_idx = Len(config_paths) - 1]_vars
    /\ [](ended_by = "config_failed"
            => /\ exit_status = 1
               /\ ~kubeconfig_loaded
               /\ all_listings = 0 /\ deleted = <<>> /\ polls = 0)
    /\ []((all_listings > 0 \/ deleted # <<>>) => kubeconfig_loaded)

\* Every path has failed.
C31_Witness ==
    /\ ended_by = "config_failed"
    /\ pc = "config"
    /\ exit_status = 1
    /\ all_listings = 0

\* ---------------------------------------- claims on wait_for_pod_ready, II
\* The status is one the claim says never yields True.
NotYetReady(status) ==
    \/ status.phase \in {"Pending", "Failed", "Unknown"}
    \/ /\ status.phase = "Running"
       /\ ~status.absent
       /\ \E k \in 1..Len(status.ready) : ~status.ready[k]

\* C27: a poll that reports phase Pending, Failed or Unknown, or Running with
\* a container flag false, never makes wait_for_pod_ready return: the sleep
\* and the next test of the budget follow, also for phase Failed, and False
\* is returned only once the elapsed time has reached the timeout.
C27_NotReadyKeepsPolling ==
    /\ []((WaitDone /\ w_ret) => ~NotYetReady(w_last))
    /\ [][(w_pc = "check" /\ NotYetReady(w_last))
           => (w_pc' = "loop" /\ ~w_ret' /\ w_sleeps' = w_sleeps + 1
               /\ w_elapsed' = w_elapsed + wait_sleep)]_vars
    /\ []((WaitDone /\ ~w_ret) => (w_elapsed >= w_timeout /\ w_last = NoStatus))

\* A second poll has reported phase Failed, and the budget is not used up.
C27_Witness ==
    /\ w_pc = "check"
    /\ w_last.phase = "Failed"
    /\ w_polls = 2 /\ w_sleeps = 1
    /\ w_elapsed < w_timeout

\* ================================================================ kube979
\* The pod resource usage report (src/kube979.py).  Kubernetes quantities
\* are strings such as "100m" or "64Mi"; a quantity is modelled as its number
\* and its suffix, and the two converters compute on them as the code does.

\* --------------------------------------------------------------- bounds
\* Longest listing list_pod_for_all_namespaces returns to the report.
MaxReportPods == 2

\* ------------------------------------------------------------ quantities
Quantity(n, unit) == [n |-> n, unit |-> unit]

\* The key is not in the dict.
Absent == Quantity(0, "absent")

\* A conversion returned v.
Value(v) == [ok |-> TRUE, v |-> v]

\* A conversion raised ValueError.
Raised == [ok |-> FALSE, v |-> 0]

\* convert_cpu_to_millicores, lines 67-78.  "none" is a value that is None or
\* empty; the quantities in nanocores drawn below are multiples of 10^6, for
\* which the true division of line 76 is exact; a suffix that is neither m
\* nor n reaches float() at line 78, which raises on any letter.
convert_cpu_to_millicores(cpu_value) ==
    IF cpu_value.unit = "none" THEN Value(0)
    ELSE IF cpu_value.unit = "m" THEN Value(cpu_value.n)
    ELSE IF cpu_value.unit = "n" THEN Value(cpu_value.n \div 1000000)
    ELSE IF cpu_value.unit = "" THEN Value(cpu_value.n * 1000)
    ELSE Raised

\* convert_memory_to_mb, lines 80-96.  The quantities in Ki drawn below are
\* multiples of 1024 and those in bytes multiples of 1024 * 1024; any other
\* suffix (M, G, k, ...) reaches int() at line 96, which raises.
convert_memory_to_mb(memory_value) ==
    IF memory_value.unit = "none" THEN Value(0)
    ELSE IF memory_value.unit = "Ki" THEN Value(memory_value.n \div 1024)
    ELSE IF memory_value.unit = "Mi" THEN Value(memory_value.n)
    ELSE IF memory_value.unit = "Gi" THEN Value(memory_value.n * 1024)
    ELSE IF memory_value.unit = "Ti" THEN Value(memory_value.n * 1024 * 1024)
    ELSE IF memory_value.unit = "" THEN Value(memory_value.n \div (1024 * 1024))
    ELSE Raised

\* A dict with the keys cpu and memory, either of which may be missing.
Dict(cpu, memory) == [cpu |-> cpu, memory |-> memory]

\* A dict that is None or has neither key.
NoDict == Dict(Absent, Absent)

\* container.resources; a container without resources has two empty dicts.
Resources(requests, limits) == [requests |-> requests, limits |-> limits]

NoResources == Resources(NoDict, NoDict)

\* The term one dict entry adds to a total: nothing when the key is missing.
CpuTerm(q) == IF q = Absent THEN Value(0) ELSE convert_cpu_to_millicores(q)

MemoryTerm(q) == IF q = Absent THEN Value(0) ELSE convert_memory_to_mb(q)

\* get_pod_resource_limits, lines 128-158: the four sums over the containers
\* from the k-th on, added to acc; ok is false when a conversion raised.
RECURSIVE ResourceSums(_, _, _)
ResourceSums(containers, k, acc) ==
    IF k > Len(containers) THEN acc
    ELSE LET r == containers[k]
             cr == CpuTerm(r.requests.cpu)
             cl == CpuTerm(r.limits.cpu)
             mr == MemoryTerm(r.requests.memory)
             ml == MemoryTerm(r.limits.memory)
         IN  ResourceSums(containers, k + 1,
                 [ok |-> acc.ok /\ cr.ok /\ cl.ok /\ mr.ok /\ ml.ok,
                  cpu_request_millicores |-> acc.cpu_request_millicores + cr.v,
                  cpu_limit_millicores |-> acc.cpu_limit_millicores + cl.v,
                  memory_request_mb |-> acc.memory_request_mb + mr.v,
                  memory_limit_mb |-> acc.memory_limit_mb + ml.v])

get_pod_resource_limits(pod) ==
    ResourceSums(pod.containers, 1,
        [ok |-> TRUE, cpu_request_millicores |-> 0, cpu_limit_millicores |-> 0,
         memory_request_mb |-> 0, memory_limit_mb |-> 0])

\* main, lines 244-253: cpu_usage and memory_usage of a metrics object, summed
\* over container['usage'] from the k-th container on.
RECURSIVE UsageSums(_, _, _)
UsageSums(containers, k, acc) ==
    IF k > Len(containers) THEN acc
    ELSE LET c == CpuTerm(containers[k].cpu)
             m == MemoryTerm(containers[k].memory)
         IN  UsageSums(containers, k + 1,
                 [ok |-> acc.ok /\ c.ok /\ m.ok,
                  cpu_usage |-> acc.cpu_usage + c.v,
                  memory_usage |-> acc.memory_usage + m.v])

\* A metrics object: it may lack the key 'containers'; a container without
\* the key 'usage' is a container with an empty usage dict.
Metrics(has_containers, containers) ==
    [has_containers |-> has_containers, containers |-> containers]

Usage(pod_metrics) ==
    IF pod_metrics.has_containers
      THEN UsageSums(pod_metrics.containers, 1,
                     [ok |-> TRUE, cpu_usage |-> 0, memory_usage |-> 0])
      ELSE [ok |-> TRUE, cpu_usage |-> 0, memory_usage |-> 0]

\* ------------------------------------------------------------ the cluster
\* A pod of the listing: metadata.namespace and metadata.name as character
\* sequences, status.phase, and the resources of spec.containers.
ReportPod(ns, name, phase, containers) ==
    [namespace |-> ns, name |-> name, phase |-> phase, containers |-> containers]

ns_app == <<"a", "p", "p">>
ns_db == <<"d", "b">>
ns_system == <<"k", "u", "b", "e">>

\* The pods the report may be given.  The last one requests "70M" of memory,
\* a decimal suffix Kubernetes accepts and convert_memory_to_mb does not.
ReportPods ==
    { ReportPod(ns_db, web1, "Running",
          << Resources(Dict(Quantity(100, "m"), Quantity(64, "Mi")),
                       Dict(Quantity(1, ""), Quantity(1, "Gi"))) >>),
      ReportPod(ns_app, api1, "Running",
          << NoResources,
             Resources(Dict(Quantity(250, "m"), Absent), NoDict) >>),
      ReportPod(ns_app, web1, "Pending",
          << Resources(Dict(Quantity(2, ""), Quantity(2048, "Ki")), NoDict) >>),
      ReportPod(ns_app, job1, "Succeeded", << NoResources >>),
      ReportPod(ns_system, dns1, "Running",
          << Resources(Dict(Quantity(100, "m"), Quantity(70, "M")), NoDict) >>) }

\* The listings: at most MaxReportPods pods, each listed once.
ReportListings == DistinctSeqs(ReportPods, MaxReportPods)

\* What get_namespaced_custom_object may return for a pod.  The last object
\* has a second container whose cpu usage is in microcores ("7u"), which
\* convert_cpu_to_millicores cannot parse.
MetricsObjects ==
    { Metrics(TRUE, << Dict(Quantity(5, "m"), Quantity(10, "Mi")) >>),
      Metrics(TRUE, << Dict(Quantity(3000000, "n"), Quantity(2097152, "")),
                       Dict(Absent, Quantity(1024, "Ki")), NoDict >>),
      Metrics(FALSE, <<>>),
      Metrics(TRUE, << Dict(Quantity(5, "m"), Quantity(10, "Mi")),
                       Dict(Quantity(7, "u"), Quantity(1, "Mi")) >>) }

\* -------------------------------------------------------------- sorting
\* Code points, for the characters that occur in the names.
Alphabet ==
    << "-", "0", "1", "2", "3", "4", "5", "6", "7", "8", "9",
       "a", "b", "c", "d", "e", "f", "g", "h", "i", "j", "k", "l", "m",
       "n", "o", "p", "q", "r", "s", "t", "u", "v", "w", "x", "y", "z" >>

ord(c) == CHOOSE k \in 1..Len(Alphabet) : Alphabet[k] = c

\* s < t on Python strings
RECURSIVE StrLess(_, _)
StrLess(s, t) ==
    IF t = <<>> THEN FALSE
    ELSE IF s = <<>> THEN TRUE
    ELSE IF s[1] = t[1] THEN StrLess(Tail(s), Tail(t))
    ELSE ord(s[1]) < ord(t[1])

\* main, line 305: the key (x['namespace'], x['name']), compared as a tuple
KeyLess(a, b) ==
    \/ StrLess(a.namespace, b.namespace)
    \/ a.namespace = b.namespace /\ StrLess(a.name, b.name)

RECURSIVE InsertRow(_, _)
InsertRow(sorted, row) ==
    IF sorted = <<>> THEN <<row>>
    ELSE IF KeyLess(row, Head(sorted)) THEN <<row>> \o sorted
    ELSE <<Head(sorted)>> \o InsertRow(Tail(sorted), row)

\* list.sort, line 305: a stable sort
RECURSIVE SortRows(_)
SortRows(rows) ==
    IF rows = <<>> THEN <<>>
    ELSE InsertRow(SortRows(SubSeq(rows, 1, Len(rows) - 1)), rows[Len(rows)])

\* ---------------------------------------------------------------- state
\* kube979 is started as a script, line 364.
ReportInit ==
    /\ WaitIdle
    /\ Fresh("kube979")
    /\ RecentIdle
    /\ DeployIdle
    /\ PlaybookIdle
    /\ rep_pc = "import"
    /\ rep_path_idx = 0
    /\ rep_pods = <<>>
    /\ metrics_available = FALSE
    /\ pod_data = <<>>
    /\ total_cpu_usage = 0
    /\ total_memory_usage = 0
    /\ total_cpu_requests = 0
    /\ total_cpu_limits = 0
    /\ total_memory_requests = 0
    /\ total_memory_limits = 0
    /\ rep_rows = <<>>
    /\ rep_lookups = <<>>
    /\ rep_exit_status = 0
    /\ rep_ended_by = "running"

RepAt(label) == rep_pc = label /\ rep_ended_by = "running"

\* The report process ends; rep_pc keeps the place where it ended.
RepExit(status, why) ==
    /\ rep_exit_status' = status
    /\ rep_ended_by' = why
    /\ UNCHANGED rep_pc
    /\ UNCHANGED <<main_vars, wait_vars, recent_vars, deploy_vars, playbook_vars>>

RepRunning(next) ==
    /\ rep_pc' = next
    /\ UNCHANGED <<rep_exit_status, rep_ended_by>>
    /\ UNCHANGED <<main_vars, wait_vars, recent_vars, deploy_vars, playbook_vars>>

\* The six totals of lines 217-222.
rep_totals == <<total_cpu_usage, total_memory_usage, total_cpu_requests, total_cpu_limits,
                total_memory_requests, total_memory_limits>>

\* What the loop of lines 224-302 accumulates.
rep_loop == <<pod_data, rep_totals, rep_lookups>>

\* The pod of the current iteration of line 224.
RepCurrent == rep_pods[Len(pod_data) + 1]

\* -------------------------------------------------------------- actions
\* main, line 163: install_and_import_kubernetes returns
RepImportOk ==
    /\ RepAt("import")
    /\ RepRunning("config")
    /\ UNCHANGED <<rep_path_idx, rep_pods, metrics_available, rep_loop, rep_rows>>

\* install_and_import_kubernetes, lines 31 and 65: sys.exit(1)
RepImportFail ==
    /\ RepAt("import")
    /\ RepExit(1, "import_failed")
    /\ UNCHANGED <<rep_path_idx, rep_pods, metrics_available, rep_loop, rep_rows>>

\* main, lines 174-179: load_kube_config succeeds on the path being tried
RepLoadConfigOk ==
    /\ RepAt("config")
    /\ rep_path_idx < Len(config_paths)
    /\ rep_path_idx' = 0
    /\ RepRunning("clients")
    /\ UNCHANGED <<rep_pods, metrics_available, rep_loop, rep_rows>>

\* main, lines 180-189: load_kube_config raises; after the last path, sys.exit(1)
RepLoadConfigFail ==
    /\ RepAt("config")
    /\ rep_path_idx < Len(config_paths)
    /\ IF rep_path_idx + 1 = Len(config_paths)
         THEN rep_path_idx' = 0 /\ RepExit(1, "config_failed")
         ELSE rep_path_idx' = rep_path_idx + 1 /\ RepRunning("config")
    /\ UNCHANGED <<rep_pods, metrics_available, rep_loop, rep_rows>>

\* main, lines 192-200: both API clients are created
RepMetricsClientOk ==
    /\ RepAt("clients")
    /\ metrics_available' = TRUE
    /\ RepRunning("list")
    /\ UNCHANGED <<rep_path_idx, rep_pods, rep_loop, rep_rows>>

\* main, lines 201-203: creating the metrics client raises
RepMetricsClientFail ==
    /\ RepAt("clients")
    /\ metrics_available' = FALSE
    /\ RepRunning("list")
    /\ UNCHANGED <<rep_path_idx, rep_pods, rep_loop, rep_rows>>

\* main, lines 209-222: the listing returns; with no pod main returns
RepListOk ==
    /\ RepAt("list")
    /\ \E items \in ReportListings :
         /\ rep_pods' = items
         /\ IF items = <<>>
              THEN RepExit(0, "no_pods")
              ELSE RepRunning("loop")
    /\ UNCHANGED <<rep_path_idx, metrics_available, rep_loop, rep_rows>>

\* main, lines 209 and 358-362: the listing raises
RepListFail ==
    /\ RepAt("list")
    /\ RepExit(1, "main_except")
    /\ UNCHANGED <<rep_path_idx, rep_pods, metrics_available, rep_loop, rep_rows>>

\* The entry lines 290-302 append for a pod (the age is left out).
Entry(pod, resource_limits, metrics_data) ==
    [namespace |-> pod.namespace, name |-> pod.name, status |-> pod.phase,
     cpu_request |-> resource_limits.cpu_request_millicores,
     cpu_limit |-> resource_limits.cpu_limit_millicores,
     memory_request |-> resource_limits.memory_request_mb,
     memory_limit |-> resource_limits.memory_limit_mb,
     cpu_usage |-> metrics_data.cpu_usage_millicores,
     memory_usage |-> metrics_data.memory_usage_mb,
     metrics_available |-> metrics_data.metrics_available]

\* metrics_data of lines 255-259, 265-270 and 272-276
MetricsData(cpu, memory, available) ==
    [cpu_usage_millicores |-> cpu, memory_usage_mb |-> memory, metrics_available |-> available]

\* main, lines 285-302: the requests and limits are added and the entry appended;
\* after the last pod the loop is left.
RepAppend(pod, resource_limits, metrics_data, lookup) ==
    /\ total_cpu_requests' = total_cpu_requests + resource_limits.cpu_request_millicores
    /\ total_cpu_limits' = total_cpu_limits + resource_limits.cpu_limit_millicores
    /\ total_memory_requests' = total_memory_requests + resource_limits.memory_request_mb
    /\ total_memory_limits' = total_memory_limits + resource_limits.memory_limit_mb
    /\ pod_data' = Append(pod_data, Entry(pod, resource_limits, metrics_data))
    /\ rep_lookups' = Append(rep_lookups, lookup)
    /\ RepRunning(IF Len(pod_data) + 1 = Len(rep_pods) THEN "report" ELSE "loop")

\* main, lines 230 and 358-362: get_pod_resource_limits raises on a quantity
\* it cannot convert; the handler of main exits with status 1
RepLimitsError ==
    /\ RepAt("loop")
    /\ ~get_pod_resource_limits(RepCurrent).ok
    /\ RepExit(1, "main_except")
    /\ UNCHANGED <<rep_path_idx, rep_pods, metrics_available, rep_loop, rep_rows>>

\* main, lines 233 and 271-276: no lookup for this pod
RepNoLookup ==
    /\ RepAt("loop")
    /\ get_pod_resource_limits(RepCurrent).ok
    /\ ~(metrics_available /\ RepCurrent.phase = "Running")
    /\ RepAppend(RepCurrent, get_pod_resource_limits(RepCurrent),
                 MetricsData(0, 0, FALSE), [kind |-> "none", usage |-> Usage(Metrics(FALSE, <<>>))])
    /\ UNCHANGED <<total_cpu_usage, total_memory_usage>>
    /\ UNCHANGED <<rep_path_idx, rep_pods, metrics_available, rep_rows>>

\* main, lines 234-270: get_namespaced_custom_object returns; the usage is
\* summed and added to the totals, unless a conversion raises on the way
RepLookupReturns ==
    /\ RepAt("loop")
    /\ get_pod_resource_limits(RepCurrent).ok
    /\ metrics_available /\ RepCurrent.phase = "Running"
    /\ \E pod_metrics \in MetricsObjects :
         LET usage == Usage(pod_metrics)
         IN  IF usage.ok
               THEN /\ total_cpu_usage' = total_cpu_usage + usage.cpu_usage
                    /\ total_memory_usage' = total_memory_usage + usage.memory_usage
                    /\ RepAppend(RepCurrent, get_pod_resource_limits(RepCurrent),
                                 MetricsData(usage.cpu_usage, usage.memory_usage, TRUE),
                                 [kind |-> "ok", usage |-> usage])
               ELSE /\ UNCHANGED <<total_cpu_usage, total_memory_usage>>
                    /\ RepAppend(RepCurrent, get_pod_resource_limits(RepCurrent),
                                 MetricsData(0, 0, FALSE),
                                 [kind |-> "unparsed", usage |-> usage])
    /\ UNCHANGED <<rep_path_idx, rep_pods, metrics_available, rep_rows>>

\* Variant: the handler of lines 264-270 is missing; the error reaches the
\* handler of main.
RepLookupErrorAborts ==
    /\ RepAt("loop")
    /\ get_pod_resource_limits(RepCurrent).ok
    /\ metrics_available /\ RepCurrent.phase = "Running"
    /\ RepExit(1, "main_except")
    /\ UNCHANGED <<rep_path_idx, rep_pods, metrics_available, rep_loop, rep_rows>>

\* main, lines 236-242 and 264-270: get_namespaced_custom_object raises
RepLookupError ==
    /\ RepAt("loop")
    /\ get_pod_resource_limits(RepCurrent).ok
    /\ metrics_available /\ RepCurrent.phase = "Running"
    /\ RepAppend(RepCurrent, get_pod_resource_limits(RepCurrent),
                 MetricsData(0, 0, FALSE), [kind |-> "error", usage |-> Usage(Metrics(FALSE, <<>>))])
    /\ UNCHANGED <<total_cpu_usage, total_memory_usage>>
    /\ UNCHANGED <<rep_path_idx, rep_pods, metrics_available, rep_rows>>

\* main, lines 305-356: pod_data is sorted, a row is printed for each entry,
\* then the summary; main returns
RepReport ==
    /\ RepAt("report")
    /\ pod_data' = SortRows(pod_data)
    /\ rep_rows' = [k \in 1..Len(pod_data) |->
                      <<SortRows(pod_data)[k].namespace, SortRows(pod_data)[k].name>>]
    /\ RepExit(0, "reported")
    /\ UNCHANGED <<rep_path_idx, rep_pods, metrics_available, rep_totals, rep_lookups>>

ReportNext ==
    \/ RepImportOk
    \/ RepImportFail
    \/ RepLoadConfigOk
    \/ RepLoadConfigFail
    \/ RepMetricsClientOk
    \/ RepMetricsClientFail
    \/ RepListOk
    \/ RepListFail
    \/ RepLimitsError
    \/ RepNoLookup
    \/ RepLookupReturns
    \/ RepLookupError
    \/ RepReport

ReportSpec == ReportInit /\ [][ReportNext]_vars

\* ------------------------------------------------------ claims on kube979
\* f[1] + ... + f[n]
RECURSIVE SumTo(_, _)
SumTo(f, n) == IF n = 0 THEN 0 ELSE f[n] + SumTo(f, n - 1)

\* What the k-th listed pod adds to the usage totals: the usage its lookup
\* returned when the pod is Running and the lookup succeeded, else nothing.
CountedUsage(k) ==
    IF rep_pods[k].phase = "Running" /\ rep_lookups[k].kind = "ok"
      THEN rep_lookups[k].usage
      ELSE Usage(Metrics(FALSE, <<>>))

\* The lookup of the k-th pod failed: the API call raised, or a quantity of
\* its answer could not be converted.
LookupFailed(k) == rep_lookups[k].kind \in {"error", "unparsed"}

\* C32: in the loop of kube979.main a pod whose requests and limits convert
\* is always appended to pod_data, whatever its metrics lookup does; a pod
\* whose lookup failed has usage 0 and metrics_available false in its entry
\* and its requests and limits in the request/limit totals; the usage totals
\* are the sums over the Running pods whose lookup succeeded; the report has
\* one row for every listed pod.
C32_LookupErrorsTolerated ==
    /\ [][(RepAt("loop") /\ get_pod_resource_limits(RepCurrent).ok)
           => (rep_ended_by' = "running" /\ Len(pod_data') = Len(pod_data) + 1)]_vars
    /\ []((rep_ended_by = "main_except" /\ rep_pc = "loop")
            => ~get_pod_resource_limits(RepCurrent).ok)
    /\ [](Len(rep_lookups) = Len(pod_data) /\ Len(pod_data) <= Len(rep_pods))
    /\ [](rep_ended_by = "running" =>
            \A k \in 1..Len(pod_data) :
               /\ pod_data[k].namespace = rep_pods[k].namespace
               /\ pod_data[k].name = rep_pods[k].name
               /\ pod_data[k].metrics_available = (rep_lookups[k].kind = "ok")
               /\ rep_lookups[k].kind = "ok"
                    => (metrics_available /\ rep_pods[k].phase = "Running")
               /\ LookupFailed(k) =>
                    /\ pod_data[k].cpu_usage = 0
                    /\ pod_data[k].memory_usage = 0
                    /\ ~pod_data[k].metrics_available
                    /\ pod_data[k].cpu_request
                         = get_pod_resource_limits(rep_pods[k]).cpu_request_millicores
                    /\ pod_data[k].memory_limit
                         = get_pod_resource_limits(rep_pods[k]).memory_limit_mb)
    /\ [](LET n == Len(rep_lookups)
              limits == [k \in 1..n |-> get_pod_resource_limits(rep_pods[k])]
          IN  /\ total_cpu_usage = SumTo([k \in 1..n |-> CountedUsage(k).cpu_usage], n)
              /\ total_memory_usage = SumTo([k \in 1..n |-> CountedUsage(k).memory_usage], n)
              /\ total_cpu_requests = SumTo([k \in 1..n |-> limits[k].cpu_request_millicores], n)
              /\ total_cpu_limits = SumTo([k \in 1..n |-> limits[k].cpu_limit_millicores], n)
              /\ total_memory_requests = SumTo([k \in 1..n |-> limits[k].memory_request_mb], n)
              /\ total_memory_limits = SumTo([k \in 1..n |-> limits[k].memory_limit_mb], n))
    /\ [](rep_ended_by = "reported" =>
            /\ Len(rep_rows) = Len(rep_pods)
            /\ \A k \in 1..Len(rep_pods) :
                 Cardinality({ j \in 1..Len(rep_rows) :
                                 rep_rows[j] = <<rep_pods[k].namespace, rep_pods[k].name>> }) = 1)

\* A report of two Running pods: the lookup of one raised, the other's usage is
\* in the totals, and the requests of both are.
C32_Witness ==
    /\ rep_ended_by = "reported"
    /\ \E a, b \in 1..Len(rep_lookups) :
         /\ rep_lookups[a].kind = "error"
         /\ get_pod_resource_limits(rep_pods[a]).cpu_request_millicores > 0
         /\ rep_lookups[b].kind = "ok"
         /\ total_cpu_usage = rep_lookups[b].usage.cpu_usage
         /\ total_cpu_usage > 0
         /\ total_cpu_requests
              = get_pod_resource_limits(rep_pods[a]).cpu_request_millicores
                + get_pod_resource_limits(rep_pods[b]).cpu_request_millicores

\* ================================================================ kube777
\* The list of the pods created in the last 12 hours (src/kube777.py).
\* Times are whole seconds.

\* --------------------------------------------------------------- bounds
\* Longest listing list_pod_for_all_namespaces returns to kube777.
MaxRecentPods == 3

\* main, line 115: timedelta(hours=12), in seconds
twelve_hours == 43200

\* One day and one hour of a timedelta, in seconds
day_seconds == 86400

hour_seconds == 3600

minute_seconds == 60

\* A listed pod with metadata.creation_timestamp
RecentPod(ns, name, phase, created) ==
    [namespace |-> ns, name |-> name, phase |-> phase, creation_timestamp |-> created]

\* The values datetime.now(timezone.utc) takes.
Nows == {200000, 200001}

\* The pods kube777 may be given: created 12 hours before the first of Nows
\* to the second, one second earlier, one second later, two days before,
\* a minute before, and half a minute after now (the clock of the API server
\* is ahead).
RecentPods ==
    { RecentPod("app", web1, "Running", 200000 - twelve_hours),
      RecentPod("app", web2, "Running", 200000 - twelve_hours - 1),
      RecentPod("app", api1, "Pending", 200000 - twelve_hours + 1),
      RecentPod("db", old1, "Running", 200000 - 2 * day_seconds),
      RecentPod("db", job1, "Succeeded", 200000 - minute_seconds),
      RecentPod("kube-system", dns1, "Running", 200000 + 30) }

\* The listings: at most MaxRecentPods pods, each listed once.
RecentListings == DistinctSeqs(RecentPods, MaxRecentPods)

\* Variant: a pod created exactly 12 hours ago is left out.
IsRecentStrict(pod, t) == pod.creation_timestamp > t - twelve_hours

\* main, lines 115 and 120: creation_time >= twelve_hours_ago
IsRecent(pod, t) == pod.creation_timestamp >= t - twelve_hours

\* main, lines 140-146: the age column; timedelta keeps days (floor) and
\* seconds (the remainder, 0..86399)
AgeStr(pod, t) ==
    LET age == t - pod.creation_timestamp
        days == age \div day_seconds
        seconds == age % day_seconds
    IN  IF days > 0 THEN <<days, "d">>
        ELSE IF seconds >= hour_seconds THEN <<seconds \div hour_seconds, "h">>
        ELSE <<seconds \div minute_seconds, "m">>

\* main, line 148: the row printed for a pod
RecentRow(pod, t) == <<pod.namespace, pod.name, pod.phase, AgeStr(pod, t)>>

\* ---------------------------------------------------------------- state
\* kube777 is started as a script, line 159.
RecentInit ==
    /\ WaitIdle
    /\ Fresh("kube777")
    /\ ReportIdle
    /\ DeployIdle
    /\ PlaybookIdle
    /\ rec_pc = "import"
    /\ rec_path_idx = 0
    /\ rec_pods = <<>>
    /\ now = 0
    /\ rec_idx = 0
    /\ recent_pods = <<>>
    /\ rec_rows = <<>>
    /\ rec_total = <<>>
    /\ rec_exit_status = 0
    /\ rec_ended_by = "running"

RecAt(label) == rec_pc = label /\ rec_ended_by = "running"

\* The process ends; rec_pc keeps the place where it ended.
RecExit(status, why) ==
    /\ rec_exit_status' = status
    /\ rec_ended_by' = why
    /\ UNCHANGED rec_pc
    /\ UNCHANGED <<main_vars, wait_vars, report_vars, deploy_vars, playbook_vars>>

RecRunning(next) ==
    /\ rec_pc' = next
    /\ UNCHANGED <<rec_exit_status, rec_ended_by>>
    /\ UNCHANGED <<main_vars, wait_vars, report_vars, deploy_vars, playbook_vars>>

\* What the filter and the printing work on.
rec_data == <<rec_pods, now, rec_idx, recent_pods, rec_rows, rec_total>>

\* -------------------------------------------------------------- actions
\* main, line 70: install_and_import_kubernetes returns
RecImportOk ==
    /\ RecAt("import")
    /\ RecRunning("config")
    /\ UNCHANGED <<rec_path_idx, rec_data>>

\* install_and_import_kubernetes, lines 31 and 65: sys.exit(1)
RecImportFail ==
    /\ RecAt("import")
    /\ RecExit(1, "import_failed")
    /\ UNCHANGED <<rec_path_idx, rec_data>>

\* main, lines 81-86: load_kube_config succeeds on the path being tried
RecLoadConfigOk ==
    /\ RecAt("config")
    /\ rec_path_idx < Len(config_paths)
    /\ rec_path_idx' = 0
    /\ RecRunning("list")
    /\ UNCHANGED rec_data

\* main, lines 87-96: load_kube_config raises; after the last path, sys.exit(1)
RecLoadConfigFail ==
    /\ RecAt("config")
    /\ rec_path_idx < Len(config_paths)
    /\ IF rec_path_idx + 1 = Len(config_paths)
         THEN rec_path_idx' = 0 /\ RecExit(1, "config_failed")
         ELSE rec_path_idx' = rec_path_idx + 1 /\ RecRunning("config")
    /\ UNCHANGED rec_data

\* main, lines 106-117: the listing returns; with no pod main returns, else
\* the clock is read
RecListOk ==
    /\ RecAt("list")
    /\ \E items \in RecentListings, t \in Nows :
         /\ rec_pods' = items
         /\ IF items = <<>>
              THEN now' = 0 /\ RecExit(0, "no_pods")
              ELSE now' = t /\ RecRunning("filter")
    /\ UNCHANGED <<rec_path_idx, rec_idx, recent_pods, rec_rows, rec_total>>

\* main, lines 106 and 152-156: the listing raises
RecListFail ==
    /\ RecAt("list")
    /\ RecExit(1, "main_except")
    /\ UNCHANGED <<rec_path_idx, rec_data>>

\* main, lines 118-125: one iteration of the filter; after the last pod,
\* main returns when recent_pods is empty
RecFilterPod ==
    /\ RecAt("filter")
    /\ rec_idx < Len(rec_pods)
    /\ rec_idx' = rec_idx + 1
    /\ recent_pods' = IF IsRecent(rec_pods[rec_idx + 1], now)
                        THEN Append(recent_pods, rec_pods[rec_idx + 1])
                        ELSE recent_pods
    /\ IF rec_idx + 1 < Len(rec_pods) THEN RecRunning("filter")
       ELSE IF recent_pods' = <<>> THEN RecExit(0, "no_recent")
       ELSE RecRunning("print")
    /\ UNCHANGED <<rec_path_idx, rec_pods, now, rec_rows, rec_total>>

\* main, lines 127-150: the count, a row for each pod of recent_pods, the total
RecPrint ==
    /\ RecAt("print")
    /\ rec_rows' = [k \in 1..Len(recent_pods) |-> RecentRow(recent_pods[k], now)]
    /\ rec_total' = <<Len(recent_pods), Len(recent_pods)>>
    /\ RecExit(0, "printed")
    /\ UNCHANGED <<rec_path_idx, rec_pods, now, rec_idx, recent_pods>>

RecentNext ==
    \/ RecImportOk
    \/ RecImportFail
    \/ RecLoadConfigOk
    \/ RecLoadConfigFail
    \/ RecListOk
    \/ RecListFail
    \/ RecFilterPod
    \/ RecPrint

RecentSpec == RecentInit /\ [][RecentNext]_vars

\* ------------------------------------------------------ claims on kube777
\* The filter of lines 118-121 has seen every listed pod.
RecFiltered == rec_pc = "print" \/ rec_ended_by \in {"no_recent", "printed"}

\* C33: once the filter has run, recent_pods is a subsequence of the listing
\* and holds exactly the listed pods created at or after now - 12 hours, a
\* pod created exactly 12 hours before now included; the total printed is the
\* number of rows printed, one for each pod of recent_pods, in its order.
C33_RecentPods ==
    /\ IsSubsequence(recent_pods, SubSeq(rec_pods, 1, rec_idx))
    /\ \A k \in 1..rec_idx :
         (rec_pods[k] \in Range(recent_pods))
            <=> (now - rec_pods[k].creation_timestamp <= twelve_hours)
    /\ RecFiltered =>
         /\ rec_idx = Len(rec_pods)
         /\ \A k \in 1..Len(rec_pods) :
              rec_pods[k].creation_timestamp + twelve_hours = now
                 => rec_pods[k] \in Range(recent_pods)
    /\ rec_ended_by = "printed" =>
         /\ rec_total[2] = Len(rec_rows)
         /\ rec_total[1] = Len(rec_rows)
         /\ Len(rec_rows) = Len(recent_pods)
         /\ \A k \in 1..Len(rec_rows) :
              /\ rec_rows[k][1] = recent_pods[k].namespace
              /\ rec_rows[k][2] = recent_pods[k].name
    /\ rec_ended_by # "printed" => (rec_rows = <<>> /\ rec_total = <<>>)

\* The rows were printed for a listing of three pods, created one second
\* before, at, and one second after now - 12 hours; the last two are printed.
C33_Witness ==
    /\ rec_ended_by = "printed"
    /\ Len(rec_pods) = 3
    /\ \E a, b, c \in 1..3 :
         /\ a < b
         /\ rec_pods[a].creation_timestamp + twelve_hours = now
         /\ rec_pods[b].creation_timestamp + twelve_hours = now + 1
         /\ rec_pods[c].creation_timestamp + twelve_hours = now - 1
         /\ recent_pods = <<rec_pods[a], rec_pods[b]>>
    /\ rec_total = <<2, 2>>

\* ================================================================ kube555
\* The deployment enumeration report (src/kube555.py).

\* --------------------------------------------------------------- bounds
\* Longest listing list_deployment_for_all_namespaces returns.
MaxDeployments == 3

\* A field of a V1Deployment that is None.
None == -1

\* A listed deployment
Deployment(ns, name, replicas, ready_replicas, available_replicas) ==
    [namespace |-> ns, name |-> name, replicas |-> replicas,
     ready_replicas |-> ready_replicas, available_replicas |-> available_replicas]

\* The deployments the cluster may hold.
Deployments ==
    { Deployment(ns_app, web1, 3, 2, 2),
      Deployment(ns_app, api1, 1, 1, 1),
      Deployment(ns_app, job1, 0, None, None),
      Deployment(ns_db, old1, 2, None, None),
      Deployment(ns_system, dns1, None, 1, 1) }

\* The listings: at most MaxDeployments deployments, each listed once.
DeploymentListings == DistinctSeqs(Deployments, MaxDeployments)

\* main, lines 73-75: value or 0
OrZero(value) == IF value = None \/ value = 0 THEN 0 ELSE value

\* dict.get(key, default)
Get(dict, key, default) == IF key \in DOMAIN dict THEN dict[key] ELSE default

\* dict[key] = value
Put(dict, key, value) ==
    [k \in DOMAIN dict \cup {key} |-> IF k = key THEN value ELSE dict[k]]

\* Variant: the namespace is marked as seen, not counted.
CountNamespaceOnce(stats, namespace) == Put(stats, namespace, 1)

\* main, line 79: namespace_stats[namespace] = namespace_stats.get(namespace, 0) + 1
CountNamespace(stats, namespace) == Put(stats, namespace, Get(stats, namespace, 0) + 1)

\* main, line 90: the row printed for a deployment (the age is left out)
DeploymentRow(deployment) ==
    <<deployment.namespace, deployment.name, OrZero(deployment.replicas),
      OrZero(deployment.ready_replicas), OrZero(deployment.available_replicas)>>

\* main, line 97: sorted(namespace_stats.items()); the keys are distinct, so
\* the pairs are ordered by namespace
RECURSIVE SortedItems(_)
SortedItems(dict) ==
    IF DOMAIN dict = {} THEN <<>>
    ELSE LET first == CHOOSE k \in DOMAIN dict :
                         \A other \in DOMAIN dict \ {k} : StrLess(k, other)
         IN  <<<<first, dict[first]>>>>
                \o SortedItems([k \in DOMAIN dict \ {first} |-> dict[k]])

\* ---------------------------------------------------------------- state
\* kube555 is started as a script, line 118.
DeployInit ==
    /\ WaitIdle
    /\ Fresh("kube555")
    /\ ReportIdle
    /\ RecentIdle
    /\ PlaybookIdle
    /\ dep_pc = "config"
    /\ deployments = <<>>
    /\ dep_idx = 0
    /\ namespace_stats = <<>>
    /\ dep_rows = <<>>
    /\ dep_summary = <<>>
    /\ dep_exit_status = 0
    /\ dep_ended_by = "running"

DepAt(label) == dep_pc = label /\ dep_ended_by = "running"

\* The process ends; dep_pc keeps the place where it ended.
DepExit(status, why) ==
    /\ dep_exit_status' = status
    /\ dep_ended_by' = why
    /\ UNCHANGED dep_pc
    /\ UNCHANGED <<main_vars, wait_vars, report_vars, recent_vars, playbook_vars>>

DepRunning(next) ==
    /\ dep_pc' = next
    /\ UNCHANGED <<dep_exit_status, dep_ended_by>>
    /\ UNCHANGED <<main_vars, wait_vars, report_vars, recent_vars, playbook_vars>>

\* What the enumeration works on.
dep_data == <<deployments, dep_idx, namespace_stats, dep_rows, dep_summary>>

\* -------------------------------------------------------------- actions
\* main, lines 18-20: the kubeconfig loads
DepLoadConfigOk ==
    /\ DepAt("config")
    /\ DepRunning("client")
    /\ UNCHANGED dep_data

\* main, lines 21-31: load_kube_config raises; sys.exit(1)
DepLoadConfigFail ==
    /\ DepAt("config")
    /\ DepExit(1, "config_failed")
    /\ UNCHANGED dep_data

\* main, lines 34-36: the client is created
DepClientOk ==
    /\ DepAt("client")
    /\ DepRunning("list")
    /\ UNCHANGED dep_data

\* main, lines 37-47: creating the client raises; sys.exit(1)
DepClientFail ==
    /\ DepAt("client")
    /\ DepExit(1, "client_failed")
    /\ UNCHANGED dep_data

\* main, lines 55-68: the listing returns; with no deployment main returns
DepListOk ==
    /\ DepAt("list")
    /\ \E items \in DeploymentListings :
         /\ deployments' = items
         /\ IF items = <<>>
              THEN DepExit(0, "no_deployments")
              ELSE DepRunning("loop")
    /\ UNCHANGED <<dep_idx, namespace_stats, dep_rows, dep_summary>>

\* main, lines 55 and 102-114: the listing raises; sys.exit(1)
DepListFail ==
    /\ DepAt("list")
    /\ DepExit(1, "list_failed")
    /\ UNCHANGED dep_data

\* main, lines 70-90: one iteration of the enumeration loop
DepCount ==
    /\ DepAt("loop")
    /\ dep_idx < Len(deployments)
    /\ dep_idx' = dep_idx + 1
    /\ namespace_stats' = CountNamespace(namespace_stats, deployments[dep_idx + 1].namespace)
    /\ dep_rows' = Append(dep_rows, DeploymentRow(deployments[dep_idx + 1]))
    /\ DepRunning(IF dep_idx + 1 < Len(deployments) THEN "loop" ELSE "summary")
    /\ UNCHANGED <<deployments, dep_summary>>

\* main, lines 92-100: the total, the number of namespaces and a line for
\* each namespace, sorted; main returns
DepSummary ==
    /\ DepAt("summary")
    /\ dep_summary' = <<Len(deployments), Cardinality(DOMAIN namespace_stats),
                        SortedItems(namespace_stats)>>
    /\ DepExit(0, "reported")
    /\ UNCHANGED <<deployments, dep_idx, namespace_stats, dep_rows>>

DeployNext ==
    \/ DepLoadConfigOk
    \/ DepLoadConfigFail
    \/ DepClientOk
    \/ DepClientFail
    \/ DepListOk
    \/ DepListFail
    \/ DepCount
    \/ DepSummary

DeploySpec == DeployInit /\ [][DeployNext]_vars

\* ------------------------------------------------------ claims on kube555
\* The sum of the values of a dict
RECURSIVE SumValues(_)
SumValues(dict) ==
    IF DOMAIN dict = {} THEN 0
    ELSE LET key == CHOOSE k \in DOMAIN dict : TRUE
         IN  dict[key] + SumValues([k \in DOMAIN dict \ {key} |-> dict[k]])

\* The enumeration loop of lines 70-90 is over.
DepEnumerated == dep_pc = "summary" \/ dep_ended_by = "reported"

\* The namespaces of the deployments seen so far.
SeenNamespaces == { deployments[k].namespace : k \in 1..dep_idx }

\* C34: after the enumeration loop the counts of namespace_stats sum to the
\* number of deployments listed, the namespaces with an entry are the
\* namespaces of the listed deployments, and every count is at least 1 (it is
\* the number of deployments of the namespace); the same holds during the loop
\* for the deployments seen so far.
C34_NamespaceStats ==
    /\ SumValues(namespace_stats) = dep_idx
    /\ DOMAIN namespace_stats = SeenNamespaces
    /\ \A ns \in DOMAIN namespace_stats :
         /\ namespace_stats[ns] >= 1
         /\ namespace_stats[ns]
              = Cardinality({ k \in 1..dep_idx : deployments[k].namespace = ns })
    /\ DepEnumerated =>
         /\ dep_idx = Len(deployments)
         /\ SumValues(namespace_stats) = Len(deployments)
         /\ \A k \in 1..Len(deployments) :
              /\ deployments[k].namespace \in DOMAIN namespace_stats
              /\ namespace_stats[deployments[k].namespace] >= 1
    /\ dep_ended_by = "reported" =>
         /\ dep_summary[1] = SumValues(namespace_stats)
         /\ dep_summary[2] = Cardinality(SeenNamespaces)

\* The report of three deployments, two of them in one namespace.
C34_Witness ==
    /\ dep_ended_by = "reported"
    /\ Len(deployments) = 3
    /\ DOMAIN namespace_stats = {ns_app, ns_db}
    /\ namespace_stats[ns_app] = 2
    /\ namespace_stats[ns_db] = 1
    /\ dep_summary[3] = <<<<ns_app, 2>>, <<ns_db, 1>>>>

\* ================================================================ kubaaa1
\* The playbook generator (src/generate_kubaaa1.py) and the playbook
\* validators (src/kubaaa1/validate_kubaaa1.py).  A dict is a record with its
\* keys as fields; lists, dicts and None are tagged with their type where
\* the code can meet any of them.

\* --------------------------------------------------------------- bounds
\* Most tasks of a play given to the validators, the generated play apart.
MaxTasks == 2

\* create_kubaaa1_playbook, lines 25-196: the tasks of the play; a command is
\* kept as its sequence of characters
kubaaa1_tasks ==
    <<
      [ name |-> "Display kubaaa1 banner",
        debug |->
            [ msg |->
                  << "=== kubaaa1 - Kubernetes Cluster Connection Test ===",
                     "Timestamp: {{ ansible_date_time.iso8601 }}",
                     "Target: {{ inventory_hostname }}",
                     "======================================================" >> ] ],
      [ name |-> "Detect operating system",
        set_fact |->
            [ is_windows |-> "{{ ansible_os_family == \"Windows\" }}" ] ],
      [ name |-> "Set kubeconfig path for Linux/macOS",
        set_fact |->
            [ kubeconfig_path |-> "{{ lookup(\"env\", \"KUBECONFIG\") or kubeconfig_default }}" ],
        when |-> "not is_windows" ],
      [ name |-> "Set kubeconfig path for Windows",
        set_fact |->
            [ kubeconfig_path |-> "{{ lookup(\"env\", \"KUBECONFIG\") or kubeconfig_windows }}" ],
        when |-> "is_windows" ],
      [ name |-> "Display kubeconfig path being used",
        debug |->
            [ msg |-> "Using kubeconfig: {{ kubeconfig_path }}" ] ],
      [ name |-> "Check if kubeconfig file exists",
        stat |->
            [ path |-> "{{ kubeconfig_path }}" ],
        register |-> "kubeconfig_stat" ],
      [ name |-> "Fail if kubeconfig file not found",
        fail |->
            [ msg |->
                  << "KUBECONFIG file not found at: {{ kubeconfig_path }}",
                     "Please ensure the kubeconfig file exists and is readable.",
                     "You can set the KUBECONFIG environment variable to specify a different path." >> ],
        when |-> "not kubeconfig_stat.stat.exists" ],
      [ name |-> "Check if kubectl is available",
        command |->
            << "k", "u", "b", "e", "c", "t", "l", " ", "v", "e", "r", "s", "i", "o",
               "n", " ", "-", "-", "c", "l", "i", "e", "n", "t", "=", "t", "r", "u",
               "e" >>,
        register |-> "kubectl_version_check",
        ignore_errors |-> TRUE,
        changed_when |-> FALSE ],
      [ name |-> "Fail if kubectl is not available",
        fail |->
            [ msg |->
                  << "kubectl is not installed or not in PATH.",
                     "Please install kubectl and ensure it is available in your system PATH.",
                     "Installation guide: https://kubernetes.io/docs/tasks/tools/" >> ],
        when |-> "kubectl_version_check.rc != 0" ],
      [ name |-> "Display kubectl version",
        debug |->
            [ msg |-> "kubectl version: {{ kubectl_version_check.stdout_lines[0] }}" ],
        when |-> "kubectl_version_check.rc == 0" ],
      [ name |-> "Test Kubernetes cluster connection",
        command |->
            << "k", "u", "b", "e", "c", "t", "l", " ", "g", "e", "t", " ", "n", "o",
               "d", "e", "s", " ", "-", "-", "k", "u", "b", "e", "c", "o", "n", "f",
               "i", "g", " ", "\"", "{", "{", " ", "k", "u", "b", "e", "c", "o", "n",
               "f", "i", "g", "_", "p", "a", "t", "h", " ", "}", "}", "\"" >>,
        register |-> "kubectl_nodes_result",
        ignore_errors |-> TRUE,
        changed_when |-> FALSE ],
      [ name |-> "Display connection success message",
        debug |->
            [ msg |->
                  << "\\u2713 Successfully connected to Kubernetes cluster!",
                     "{{ kubectl_nodes_result.stdout }}" >> ],
        when |-> "kubectl_nodes_result.rc == 0" ],
      [ name |-> "Get cluster information",
        command |->
            << "k", "u", "b", "e", "c", "t", "l", " ", "c", "l", "u", "s", "t", "e",
               "r", "-", "i", "n", "f", "o", " ", "-", "-", "k", "u", "b", "e", "c",
               "o", "n", "f", "i", "g", " ", "\"", "{", "{", " ", "k", "u", "b", "e",
               "c", "o", "n", "f", "i", "g", "_", "p", "a", "t", "h", " ", "}", "}",
               "\"" >>,
        register |-> "kubectl_cluster_info",
        ignore_errors |-> TRUE,
        changed_when |-> FALSE,
        when |-> "kubectl_nodes_result.rc == 0" ],
      [ name |-> "Display cluster information",
        debug |->
            [ msg |->
                  << "Cluster Information:",
                     "{{ kubectl_cluster_info.stdout }}" >> ],
        when |-> "kubectl_nodes_result.rc == 0 and kubectl_cluster_info.rc == 0" ],
      [ name |-> "Get current context",
        command |->
            << "k", "u", "b", "e", "c", "t", "l", " ", "c", "o", "n", "f", "i", "g",
               " ", "c", "u", "r", "r", "e", "n", "t", "-", "c", "o", "n", "t", "e",
               "x", "t", " ", "-", "-", "k", "u", "b", "e", "c", "o", "n", "f", "i",
               "g", " ", "\"", "{", "{", " ", "k", "u", "b", "e", "c", "o", "n", "f",
               "i", "g", "_", "p", "a", "t", "h", " ", "}", "}", "\"" >>,
        register |-> "kubectl_current_context",
        ignore_errors |-> TRUE,
        changed_when |-> FALSE,
        when |-> "kubectl_nodes_result.rc == 0" ],
      [ name |-> "Display current context",
        debug |->
            [ msg |-> "Current context: {{ kubectl_current_context.stdout }}" ],
        when |-> "kubectl_nodes_result.rc == 0 and kubectl_current_context.rc == 0" ],
      [ name |-> "Display connection failure message",
        debug |->
            [ msg |->
                  << "\\u2717 Failed to connect to Kubernetes cluster",
                     "Error output: {{ kubectl_nodes_result.stderr }}",
                     "Please check:",
                     "  - Cluster is running and accessible",
                     "  - Network connectivity to cluster API server",
                     "  - Kubeconfig credentials are valid and not expired",
                     "  - RBAC permissions for cluster access",
                     "  - Firewall settings allowing cluster communication" >> ],
        when |-> "kubectl_nodes_result.rc != 0" ],
      [ name |-> "Fail if unable to connect to Kubernetes cluster",
        fail |->
            [ msg |->
                  << "Unable to connect to Kubernetes cluster.",
                     "Please review the error messages above and troubleshoot accordingly." >> ],
        when |-> "kubectl_nodes_result.rc != 0" ],
      [ name |-> "Display success summary",
        debug |->
            [ msg |->
                  << "=== kubaaa1 Connection Test Summary ===",
                     "\\u2713 Kubeconfig found and accessible",
                     "\\u2713 kubectl is available and working",
                     "\\u2713 Successfully connected to Kubernetes cluster",
                     "\\u2713 Cluster information retrieved successfully",
                     "===========================================" >> ],
        when |-> "kubectl_nodes_result.rc == 0" ]
    >>

\* create_kubaaa1_playbook, lines 17-197: the play
kubaaa1_play ==
    [ name |-> "kubaaa1 - Connect to Kubernetes Cluster",
      hosts |-> "localhost",
      gather_facts |-> FALSE,
      vars |->
          [ kubeconfig_default |-> "{{ ansible_env.HOME }}/.kube/config",
            kubeconfig_windows |-> "{{ ansible_env.USERPROFILE }}\\.kube\\config" ],
      tasks |-> kubaaa1_tasks ]

\* create_kubaaa1_playbook, lines 16-200: playbook_data, a list of one play
create_kubaaa1_playbook == PyList(<<PyDict(kubaaa1_play)>>)

\* validate_yaml_syntax, line 17, on the file write_kubaaa1_playbook wrote:
\* yaml.dump (lines 213-217) writes playbook_data as one document, and
\* list(yaml.safe_load_all(f)) is the list of the documents of the file.
LoadedDocuments(playbook_data) == PyList(<<playbook_data>>)

\* ------------------------------------------------------------ the inputs
kubectl == << "k", "u", "b", "e", "c", "t", "l" >>

\* Tasks with and without a name, with and without a kubectl command.
Tasks ==
    { [name |-> "Show banner", debug |-> "msg"],
      [debug |-> "msg"],
      [name |-> "Get pods", command |-> kubectl \o << " ", "g", "e", "t" >>],
      [name |-> "Say hello", command |-> << "e", "c", "h", "o", " ", "k", "u", "b", "e" >>],
      [command |-> << "/", "b", "i", "n", "/" >> \o kubectl] }

RECURSIVE TaskListsOf(_)
TaskListsOf(n) ==
    IF n = 0 THEN {<<>>}
    ELSE LET shorter == TaskListsOf(n - 1)
         IN  shorter \cup
             { Append(s, task) : s \in { q \in shorter : Len(q) = n - 1 }, task \in Tasks }

\* A play with the given keys.
Play(keys, tasks) ==
    [k \in keys |-> IF k = "name" THEN "Connect"
                    ELSE IF k = "hosts" THEN "localhost"
                    ELSE tasks]

\* The plays: any subset of the three keys, any list of at most MaxTasks tasks.
Plays ==
    { Play(keys, <<>>) : keys \in SUBSET {"name", "hosts"} }
      \cup { Play(keys \cup {"tasks"}, tasks) :
               keys \in SUBSET {"name", "hosts"}, tasks \in TaskListsOf(MaxTasks) }

\* A play the validators accept, and one they do not.
GoodPlay == Play({"name", "hosts", "tasks"}, << [name |-> "Get pods", command |-> kubectl] >>)

BadPlay == Play({"hosts", "tasks"}, << [debug |-> "msg"] >>)

\* What the validators are called with: the generated playbook, the documents
\* loaded from the generated file, a play, a list of one play or of two, a
\* list of an empty document, an empty list, or nothing.
IsInput(value) ==
    \/ value = create_kubaaa1_playbook
    \/ value = LoadedDocuments(create_kubaaa1_playbook)
    \/ \E play \in Plays :
         \/ value = PyDict(play)
         \/ value = PyList(<<PyDict(play)>>)
         \/ value = PyList(<<PyDict(play), PyDict(GoodPlay)>>)
         \/ value = PyList(<<PyDict(play), PyDict(BadPlay)>>)
    \/ value = PyList(<<PyNone>>)
    \/ value = PyList(<<>>)
    \/ value = PyNone

\* ----------------------------------------------------------- validators
\* bool(value)
Truthy(value) ==
    IF value.type = "none" THEN FALSE
    ELSE IF value.type = "list" THEN Len(value.value) > 0
    ELSE DOMAIN value.value # {}

\* key in container.  A list is searched for an element equal to the key;
\* the lists here hold dicts, lists or None, none of which equals a string.
In(key, container) ==
    IF container.type = "dict" THEN key \in DOMAIN container.value ELSE FALSE

\* sub in s, on strings
Contains(s, sub) ==
    \E k \in 1..(Len(s) - Len(sub) + 1) : SubSeq(s, k, k + Len(sub) - 1) = sub

required_fields == <<"name", "hosts", "tasks">>

\* validate_playbook_structure, lines 34-37: the play that is examined
FirstPlaybook(value) ==
    IF value.type = "list" /\ Len(value.value) > 0 THEN value.value[1] ELSE value

\* Variant: the loop of lines 53-57 is missing.
ValidateFieldsOnly(value) ==
    IF ~Truthy(value) THEN "False"
    ELSE LET playbook == FirstPlaybook(value)
         IN  IF playbook.type = "none" THEN "raise"
             ELSE IF \E f \in 1..Len(required_fields) : ~In(required_fields[f], playbook)
               THEN "False"
             ELSE "True"

\* validate_playbook_structure, lines 27-60: "True", "False", or "raise" when
\* the first document is None (line 42, 'name' in None)
validate_playbook_structure(value) ==
    IF ~Truthy(value) THEN "False"
    ELSE LET playbook == FirstPlaybook(value)
         IN  IF playbook.type = "none" THEN "raise"
             ELSE IF \E f \in 1..Len(required_fields) : ~In(required_fields[f], playbook)
               THEN "False"
             ELSE IF \E k \in 1..Len(playbook.value.tasks) :
                        "name" \notin DOMAIN playbook.value.tasks[k]
               THEN "False"
             ELSE "True"

\* validate_kubectl_tasks, line 68: the test that makes a task a kubectl task
IsKubectlTask(task) == "command" \in DOMAIN task /\ Contains(task.command, kubectl)

\* validate_kubectl_tasks, lines 62-75: "raise" when playbooks[0] or
\* playbook['tasks'] cannot be taken, or a kubectl task has no name (line 69)
validate_kubectl_tasks(value) ==
    IF value.type # "list" \/ ~Truthy(value) THEN "raise"
    ELSE LET playbook == value.value[1]
         IN  IF playbook.type # "dict" \/ ~In("tasks", playbook) THEN "raise"
             ELSE LET tasks == playbook.value.tasks
                      kubectl_tasks == { k \in 1..Len(tasks) : IsKubectlTask(tasks[k]) }
                  IN  IF \E k \in kubectl_tasks : "name" \notin DOMAIN tasks[k] THEN "raise"
                      ELSE IF Cardinality(kubectl_tasks) > 0 THEN "True"
                      ELSE "False"

\* ---------------------------------------------------------------- state
\* A playbook is about to be validated.
PlaybookInit ==
    /\ WaitIdle
    /\ Fresh("kubaaa1")
    /\ ReportIdle
    /\ RecentIdle
    /\ DeployIdle
    /\ IsInput(playbooks)
    /\ structure_valid = "unset"
    /\ kubectl_valid = "unset"

\* validate_kubaaa1.main, line 99: validate_playbook_structure is called
ValidateStructure ==
    /\ structure_valid = "unset"
    /\ structure_valid' = validate_playbook_structure(playbooks)
    /\ UNCHANGED <<playbooks, kubectl_valid>>
    /\ UNCHANGED <<main_vars, wait_vars, report_vars, recent_vars, deploy_vars>>

\* validate_kubaaa1.main, line 105: validate_kubectl_tasks is called
ValidateKubectl ==
    /\ kubectl_valid = "unset"
    /\ kubectl_valid' = validate_kubectl_tasks(playbooks)
    /\ UNCHANGED <<playbooks, structure_valid>>
    /\ UNCHANGED <<main_vars, wait_vars, report_vars, recent_vars, deploy_vars>>

PlaybookNext == ValidateStructure \/ ValidateKubectl

PlaybookSpec == PlaybookInit /\ [][PlaybookNext]_vars

\* ------------------------------------------------------ claims on kubaaa1
\* The play of the generated playbook.
GeneratedPlay == create_kubaaa1_playbook.value[1].value

\* The play validate_playbook_structure examines lacks a required key, or
\* one of its tasks has no name.
Defective(play) ==
    \/ {"name", "hosts", "tasks"} \ DOMAIN play # {}
    \/ /\ "tasks" \in DOMAIN play
       /\ \E k \in 1..Len(play.tasks) : "name" \notin DOMAIN play.tasks[k]

====
